---- MODULE Spec2Model ----
(***************************************************************************)
(* A model of the cpp-btree engine (btree.h, btree_node.h,                 *)
(* btree_iterator.h): nodes live in a heap indexed by address, the tree is *)
(* the root pointer, and every public operation is one action that runs    *)
(* the whole C++ routine on the heap.                                      *)
(*                                                                         *)
(* Indices are 0-based as in the C++ code; the accessors value, key and    *)
(* child translate to the 1-based TLA+ tuples.                             *)
(***************************************************************************)
EXTENDS Integers, Sequences, FiniteSets, TLC

\* Keys offered to the unique tree by an arbitrary client.
MaxKey == 8
\* Keys offered to the unique tree by a client that keeps its keys in one
\* contiguous run (it grows the run at either end, erases anywhere).
MaxDeepKey == 22
\* Keys offered to the unique tree by a client that inspects the results.
MaxObsKey == 7
\* Keys offered to the multi tree, and the number of values inserted into it.
MaxMultiKey == 2
\* Keys offered to, and looked up in, the container whose lookups are
\* inspected.
MaxLookupKey == 5
\* Keys offered to the unique tree by a client that inserts with hints.
MaxHintKey == 8
\* Keys offered in any order to the unique tree that is copied, the last key
\* of the ascending run that deepens it, and the number of values inserted
\* into the multi tree that is copied.
MaxCopyKey == 5
MaxCopyDeepKey == 16
MaxCopyInserts == 4
MaxInserts == 5
\* Keys of the node that is searched, and of the queries.
MaxSearchKey == 3
\* The largest tree from which the client of SpecSplit erases.
MaxSplitErase == 10
\* The longest run the client of SpecErase builds, and the holes it makes.
MaxEraseRun == 12
MaxHoles == 2
\* Requests the allocator grants in a call before it refuses one.
MaxGrants == 2

\* The node capacities (template parameter kNodeValues) that are explored.
NodeValuesChoices == {3, 4}

\* The sizes of values smaller than a pointer (sizeof(value_type) of a
\* four-byte key) that are explored; Init has the pointer-sized value.
SmallValueSizes == {4}

NULL == 0
NoValue == <<0, 0>>
\* sizeof(btree_node*) and the alignment it gives the node records; bool
\* leaf and the three field_type counters, padded, then the parent pointer.
kPointerSize == 8
sizeof_base_fields == 16
\* btree_node::kExactMatch = 1 << 30; kMatchMask = kExactMatch - 1.
kExactMatch == 1073741824

VARIABLES
  kNodeValues,  \* btree_node::kNodeValues of this instantiation
  kValueSize,   \* sizeof(value_type) of it
  is_key_compare_to,  \* Params::is_key_compare_to::value of it
  root,         \* btree::root_.data
  heap,         \* the allocated nodes, by address
  misuse,       \* the deallocate calls that broke the allocator's contract
  other,        \* a second container of the same type: its root and nodes
  ref,          \* reference container: the values inserted and not erased
  clock,        \* number of values handed to the multi tree so far
  op,           \* the last public call, when the caller observes it
  ret           \* what that call returned

vars ==
  <<kNodeValues, kValueSize, is_key_compare_to, root, heap, misuse, other,
    ref, clock, op, ret>>

\* Defect: the threshold one too low.
kMinNodeValues_low == (kNodeValues \div 2) - 1
kMinNodeValues == kNodeValues \div 2

Min2(a, b) == IF a < b THEN a ELSE b
Max2(a, b) == IF a > b THEN a ELSE b

\* params_type::key and the comparator std::less<int>.
KeyOf(v) == v[1]
compare_keys(x, y) == x < y

Iter(n, p) == [node |-> n, position |-> p]

(***************************************************************************)
(* btree_node: accessors                                                   *)
(***************************************************************************)
value(h, n, i) == h[n].values[i + 1]
key(h, n, i) == KeyOf(value(h, n, i))
child(h, n, i) == h[n].children[i + 1]
is_root(h, n) == h[h[n].parent].leaf

\* Defect: the child's position is not recorded.
set_child_without_position(h, n, i, c) ==
  [h EXCEPT ![n].children[i + 1] = c, ![c].parent = n]
set_child(h, n, i, c) ==
  [h EXCEPT ![n].children[i + 1] = c, ![c].parent = n, ![c].position = i]

\* c->set_position(j) for the children of n in slots lo..hi.
Reposition(h, n, lo, hi) ==
  [m \in DOMAIN h |->
     IF \E j \in lo..hi : child(h, n, j) = m
     THEN [h[m] EXCEPT !.position = CHOOSE j \in lo..hi : child(h, n, j) = m]
     ELSE h[m]]

\* c->fields_.parent = n for the children of n in slots lo..hi.
Reparent(h, n, lo, hi) ==
  [m \in DOMAIN h |->
     IF \E j \in lo..hi : child(h, n, j) = m
     THEN [h[m] EXCEPT !.parent = n]
     ELSE h[m]]

(***************************************************************************)
(* btree_node: creation                                                    *)
(***************************************************************************)
init_leaf(parent, max_count) ==
  [leaf |-> TRUE, position |-> 0, max_count |-> max_count, count |-> 0,
   parent |-> parent,
   values |-> [i \in 1..kNodeValues |-> NoValue],
   children |-> <<>>, rightmost |-> NULL, size |-> 0, bytes |-> 0]

init_internal(parent) ==
  [init_leaf(parent, kNodeValues) EXCEPT
     !.leaf = FALSE,
     !.children = [i \in 1..(kNodeValues + 1) |-> NULL]]

\* Defect: the size of the new root is not taken from the old leaf root.
init_root_without_size(h, parent) ==
  [init_internal(parent) EXCEPT !.rightmost = parent]
init_root(h, parent) ==
  [init_internal(parent) EXCEPT !.rightmost = parent, !.size = h[parent].count]

\* The allocator hands out an unused address.
allocate(h) ==
  CHOOSE a \in 1..(Cardinality(DOMAIN h) + 1) :
    a \notin DOMAIN h /\ \A b \in 1..(a - 1) : b \in DOMAIN h

deallocate(h, n) == [m \in DOMAIN h \ {n} |-> h[m]]

\* The struct sizes: a struct is padded to a multiple of its alignment.
RoundUp(n, a) == ((n + a - 1) \div a) * a
sizeof_leaf_fields ==
  RoundUp(sizeof_base_fields + kNodeValues * kValueSize, kPointerSize)
sizeof_internal_fields == sizeof_leaf_fields + (kNodeValues + 1) * kPointerSize
sizeof_root_fields == sizeof_internal_fields + 2 * kPointerSize

(***************************************************************************)
(* btree_node: value and child movement                                    *)
(***************************************************************************)
insert_value(h, n, i, x) ==
  LET nd == h[n]
      c == nd.count
      vals == [j \in 1..kNodeValues |->
                 IF j - 1 < i THEN nd.values[j]
                 ELSE IF j - 1 = i THEN x
                 ELSE IF j - 1 <= c THEN nd.values[j - 1]
                 ELSE nd.values[j]]
      h1 == [h EXCEPT ![n].values = vals, ![n].count = c + 1]
  IN IF nd.leaf THEN h1
     ELSE LET kids == [j \in 1..(kNodeValues + 1) |->
                         IF j - 1 > i + 1 /\ j - 1 <= c + 1 THEN nd.children[j - 1]
                         ELSE IF j - 1 = i + 1 THEN NULL
                         ELSE nd.children[j]]
          IN Reposition([h1 EXCEPT ![n].children = kids], n, i + 2, c + 1)

remove_value(h, n, i) ==
  LET nd == h[n]
      c == nd.count
      kids == IF nd.leaf THEN nd.children
              ELSE [j \in 1..(kNodeValues + 1) |->
                      IF j - 1 >= i + 1 /\ j - 1 < c THEN nd.children[j + 1]
                      ELSE IF j - 1 = c THEN NULL
                      ELSE nd.children[j]]
      vals == [j \in 1..kNodeValues |->
                 IF j - 1 < i THEN nd.values[j]
                 ELSE IF j - 1 < c - 1 THEN nd.values[j + 1]
                 ELSE IF j - 1 = c - 1 THEN NoValue
                 ELSE nd.values[j]]
      h1 == [h EXCEPT ![n].children = kids, ![n].values = vals,
                      ![n].count = c - 1]
  IN IF nd.leaf THEN h1 ELSE Reposition(h1, n, i + 1, c - 1)

rebalance_right_to_left(h, n, src, to_move) ==
  LET nd == h[n]
      sd == h[src]
      p == nd.parent
      pos == nd.position
      c == nd.count
      sc == sd.count
      nvals == [j \in 1..kNodeValues |->
                  IF j - 1 = c THEN value(h, p, pos)
                  ELSE IF j - 1 > c /\ j - 1 < c + to_move
                       THEN sd.values[j - 1 - c]
                  ELSE nd.values[j]]
      svals == [j \in 1..kNodeValues |->
                  IF j - 1 < sc - to_move THEN sd.values[j + to_move]
                  ELSE IF j - 1 < sc THEN NoValue
                  ELSE sd.values[j]]
      h1 == [h EXCEPT ![n].values = nvals, ![n].count = c + to_move,
                      ![src].values = svals, ![src].count = sc - to_move,
                      ![p].values[pos + 1] = sd.values[to_move]]
  IN IF nd.leaf THEN h1
     ELSE LET nkids == [j \in 1..(kNodeValues + 1) |->
                          IF j - 1 >= 1 + c /\ j - 1 < 1 + c + to_move
                          THEN sd.children[j - 1 - c]
                          ELSE nd.children[j]]
              skids == [j \in 1..(kNodeValues + 1) |->
                          IF j - 1 <= sc - to_move THEN sd.children[j + to_move]
                          ELSE IF j - 1 <= sc THEN NULL
                          ELSE sd.children[j]]
              h2 == [h1 EXCEPT ![n].children = nkids, ![src].children = skids]
              h3 == Reposition(Reparent(h2, n, 1 + c, c + to_move),
                               n, 1 + c, c + to_move)
          IN Reposition(Reparent(h3, src, 0, sc - to_move),
                        src, 0, sc - to_move)

rebalance_left_to_right(h, n, dest, to_move) ==
  LET nd == h[n]
      dd == h[dest]
      p == nd.parent
      pos == nd.position
      c == nd.count
      dc == dd.count
      dvals == [j \in 1..kNodeValues |->
                  IF j - 1 < to_move - 1 THEN nd.values[c - to_move + j + 1]
                  ELSE IF j - 1 = to_move - 1 THEN value(h, p, pos)
                  ELSE IF j - 1 < dc + to_move THEN dd.values[j - to_move]
                  ELSE dd.values[j]]
      nvals == [j \in 1..kNodeValues |->
                  IF j - 1 >= c - to_move /\ j - 1 < c THEN NoValue
                  ELSE nd.values[j]]
      h1 == [h EXCEPT ![n].values = nvals, ![n].count = c - to_move,
                      ![dest].values = dvals, ![dest].count = dc + to_move,
                      ![p].values[pos + 1] = nd.values[c - to_move + 1]]
  IN IF nd.leaf THEN h1
     ELSE LET dkids == [j \in 1..(kNodeValues + 1) |->
                          IF j - 1 < to_move THEN nd.children[c - to_move + j + 1]
                          ELSE IF j - 1 <= dc + to_move
                               THEN dd.children[j - to_move]
                          ELSE dd.children[j]]
              nkids == [j \in 1..(kNodeValues + 1) |->
                          IF j - 1 > c - to_move /\ j - 1 <= c THEN NULL
                          ELSE nd.children[j]]
              h2 == [h1 EXCEPT ![n].children = nkids, ![dest].children = dkids]
          IN Reposition(Reparent(h2, dest, 0, dc + to_move),
                        dest, 0, dc + to_move)

\* The children's half of split: dest takes the children behind the
\* values it took.
split_children(h, nd, n, dest, c2, dcount) ==
  IF nd.leaf THEN h
  ELSE Reposition(
         Reparent(
           [h EXCEPT
              ![n].children =
                 [j \in 1..(kNodeValues + 1) |->
                    IF j - 1 > c2 /\ j - 1 <= c2 + dcount + 1 THEN NULL
                    ELSE nd.children[j]],
              ![dest].children =
                 [j \in 1..(kNodeValues + 1) |->
                    IF j - 1 <= dcount THEN nd.children[c2 + j + 1]
                    ELSE h[dest].children[j]]],
           dest, 0, dcount),
         dest, 0, dcount)

\* Defect: the split is not biased by the insert position.
split_in_half(h, n, dest, insert_position) ==
  LET nd == h[n]
      c == nd.count
      dcount == c \div 2
      c1 == c - dcount
      c2 == c1 - 1
      dvals == [j \in 1..kNodeValues |->
                  IF j - 1 < dcount THEN nd.values[c1 + j] ELSE h[dest].values[j]]
      nvals == [j \in 1..kNodeValues |->
                  IF j - 1 >= c2 /\ j - 1 < c THEN NoValue ELSE nd.values[j]]
  IN split_children(
       set_child(
         insert_value([h EXCEPT ![n].values = nvals, ![n].count = c2,
                                ![dest].values = dvals, ![dest].count = dcount],
                      nd.parent, nd.position, nd.values[c2 + 1]),
         nd.parent, nd.position + 1, dest),
       nd, n, dest, c2, dcount)

split(h, n, dest, insert_position) ==
  LET nd == h[n]
      c == nd.count
      dcount == IF insert_position = 0 THEN c - 1
                ELSE IF insert_position = nd.max_count THEN 0
                ELSE c \div 2
      c1 == c - dcount
      c2 == c1 - 1
      dvals == [j \in 1..kNodeValues |->
                  IF j - 1 < dcount THEN nd.values[c1 + j] ELSE h[dest].values[j]]
      nvals == [j \in 1..kNodeValues |->
                  IF j - 1 >= c2 /\ j - 1 < c THEN NoValue ELSE nd.values[j]]
  IN split_children(
       set_child(
         insert_value([h EXCEPT ![n].values = nvals, ![n].count = c2,
                                ![dest].values = dvals, ![dest].count = dcount],
                      nd.parent, nd.position, nd.values[c2 + 1]),
         nd.parent, nd.position + 1, dest),
       nd, n, dest, c2, dcount)

\* Defect: src keeps its count when its values have been moved away.
merge_values_keeps_count(h, n, src) ==
  LET nd == h[n]
      sd == h[src]
      p == nd.parent
      pos == nd.position
      c == nd.count
      sc == sd.count
      nvals == [j \in 1..kNodeValues |->
                  IF j - 1 = c THEN value(h, p, pos)
                  ELSE IF j - 1 > c /\ j - 1 <= c + sc THEN sd.values[j - 1 - c]
                  ELSE nd.values[j]]
      h1 == [h EXCEPT ![n].values = nvals, ![n].count = 1 + c + sc,
                      ![src].values = [j \in 1..kNodeValues |-> NoValue],
                      ![p].values[pos + 1] = NoValue]
      h2 == IF nd.leaf THEN h1
            ELSE LET nkids == [j \in 1..(kNodeValues + 1) |->
                                 IF j - 1 >= 1 + c /\ j - 1 <= 1 + c + sc
                                 THEN sd.children[j - 1 - c]
                                 ELSE nd.children[j]]
                     skids == [j \in 1..(kNodeValues + 1) |->
                                 IF j - 1 <= sc THEN NULL ELSE sd.children[j]]
                     h1a == [h1 EXCEPT ![n].children = nkids,
                                       ![src].children = skids]
                 IN Reposition(Reparent(h1a, n, 1 + c, 1 + c + sc),
                               n, 1 + c, 1 + c + sc)
  IN h2
\* merge up to the removal of the delimiting value from the parent.
merge_values(h, n, src) ==
  LET nd == h[n]
      sd == h[src]
      p == nd.parent
      pos == nd.position
      c == nd.count
      sc == sd.count
      nvals == [j \in 1..kNodeValues |->
                  IF j - 1 = c THEN value(h, p, pos)
                  ELSE IF j - 1 > c /\ j - 1 <= c + sc THEN sd.values[j - 1 - c]
                  ELSE nd.values[j]]
      h1 == [h EXCEPT ![n].values = nvals, ![n].count = 1 + c + sc,
                      ![src].values = [j \in 1..kNodeValues |-> NoValue],
                      ![src].count = 0,
                      ![p].values[pos + 1] = NoValue]
      h2 == IF nd.leaf THEN h1
            ELSE LET nkids == [j \in 1..(kNodeValues + 1) |->
                                 IF j - 1 >= 1 + c /\ j - 1 <= 1 + c + sc
                                 THEN sd.children[j - 1 - c]
                                 ELSE nd.children[j]]
                     skids == [j \in 1..(kNodeValues + 1) |->
                                 IF j - 1 <= sc THEN NULL ELSE sd.children[j]]
                     h1a == [h1 EXCEPT ![n].children = nkids,
                                       ![src].children = skids]
                 IN Reposition(Reparent(h1a, n, 1 + c, 1 + c + sc),
                               n, 1 + c, 1 + c + sc)
  IN h2

merge(h, n, src) ==
  remove_value(merge_values(h, n, src), h[n].parent, h[n].position)

swap(h, n, x) ==
  LET nd == h[n]
      xd == h[x]
      m == Max2(nd.count, xd.count)
      nvals == [j \in 1..kNodeValues |->
                  IF j - 1 < m THEN xd.values[j] ELSE nd.values[j]]
      xvals == [j \in 1..kNodeValues |->
                  IF j - 1 < m THEN nd.values[j] ELSE xd.values[j]]
      h1 == [h EXCEPT ![n].values = nvals, ![x].values = xvals]
      h2 == IF nd.leaf THEN h1
            ELSE LET nkids == [j \in 1..(kNodeValues + 1) |->
                                 IF j - 1 <= m THEN xd.children[j]
                                 ELSE nd.children[j]]
                     xkids == [j \in 1..(kNodeValues + 1) |->
                                 IF j - 1 <= m THEN nd.children[j]
                                 ELSE xd.children[j]]
                     h1a == [h1 EXCEPT ![n].children = nkids,
                                       ![x].children = xkids]
                 IN Reparent(Reparent(h1a, x, 0, nd.count), n, 0, xd.count)
  IN [h2 EXCEPT ![n].count = xd.count, ![x].count = nd.count]

(***************************************************************************)
(* btree_node: per-node search (integer keys: linear search, plain         *)
(* compare)                                                                *)
(***************************************************************************)
RECURSIVE linear_search_plain_compare(_, _, _, _, _)
linear_search_plain_compare(h, n, k, s, e) ==
  IF s < e /\ compare_keys(key(h, n, s), k)
  THEN linear_search_plain_compare(h, n, k, s + 1, e)
  ELSE s

\* The same loop under btree_upper_bound_adapter: comp(a, b) = !less(b, a).
RECURSIVE linear_search_upper(_, _, _, _, _)
linear_search_upper(h, n, k, s, e) ==
  IF s < e /\ ~compare_keys(k, key(h, n, s))
  THEN linear_search_upper(h, n, k, s + 1, e)
  ELSE s

\* The loop under a compare-to comparator: an exact match is flagged in the
\* result.
RECURSIVE linear_search_compare_to(_, _, _, _, _)
linear_search_compare_to(h, n, k, s, e) ==
  IF s < e
  THEN IF key(h, n, s) = k THEN s + kExactMatch
       ELSE IF key(h, n, s) > k THEN s
       ELSE linear_search_compare_to(h, n, k, s + 1, e)
  ELSE s

\* s | kExactMatch.
exact_match(s) == IF s >= kExactMatch THEN s ELSE s + kExactMatch

RECURSIVE binary_search_plain_compare(_, _, _, _, _)
binary_search_plain_compare(h, n, k, s, e) ==
  IF s = e THEN s
  ELSE IF compare_keys(key(h, n, (s + e) \div 2), k)
  THEN binary_search_plain_compare(h, n, k, (s + e) \div 2 + 1, e)
  ELSE binary_search_plain_compare(h, n, k, s, (s + e) \div 2)

\* The same loop under btree_upper_bound_adapter.
RECURSIVE binary_search_upper(_, _, _, _, _)
binary_search_upper(h, n, k, s, e) ==
  IF s = e THEN s
  ELSE IF ~compare_keys(k, key(h, n, (s + e) \div 2))
  THEN binary_search_upper(h, n, k, (s + e) \div 2 + 1, e)
  ELSE binary_search_upper(h, n, k, s, (s + e) \div 2)

\* Defect: an equal key at the midpoint is returned without looking for an
\* equal key before it.
RECURSIVE binary_search_compare_to_at_mid(_, _, _, _, _)
binary_search_compare_to_at_mid(h, n, k, s, e) ==
  IF s = e THEN s
  ELSE IF key(h, n, (s + e) \div 2) < k
  THEN binary_search_compare_to_at_mid(h, n, k, (s + e) \div 2 + 1, e)
  ELSE IF key(h, n, (s + e) \div 2) > k
  THEN binary_search_compare_to_at_mid(h, n, k, s, (s + e) \div 2)
  ELSE exact_match((s + e) \div 2)

RECURSIVE binary_search_compare_to(_, _, _, _, _)
binary_search_compare_to(h, n, k, s, e) ==
  IF s = e THEN s
  ELSE IF key(h, n, (s + e) \div 2) < k
  THEN binary_search_compare_to(h, n, k, (s + e) \div 2 + 1, e)
  ELSE IF key(h, n, (s + e) \div 2) > k
  THEN binary_search_compare_to(h, n, k, s, (s + e) \div 2)
  ELSE exact_match(binary_search_compare_to(h, n, k, s, (s + e) \div 2))

\* Defect: the comparator is not turned into the upper-bound comparator.
upper_bound_without_adapter(h, n, k) ==
  linear_search_plain_compare(h, n, k, 0, h[n].count)
upper_bound(h, n, k) == linear_search_upper(h, n, k, 0, h[n].count)

\* Defect: the search runs past the keys equal to k.
lower_bound_past_equal(h, n, k) == linear_search_upper(h, n, k, 0, h[n].count)
\* search_type::lower_bound: compare-to or plain compare, by the comparator.
lower_bound(h, n, k) ==
  IF is_key_compare_to
  THEN linear_search_compare_to(h, n, k, 0, h[n].count)
  ELSE linear_search_plain_compare(h, n, k, 0, h[n].count)

(***************************************************************************)
(* btree_iterator                                                          *)
(***************************************************************************)
RECURSIVE IncrementUp(_, _)
IncrementUp(h, it) ==
  IF it.position = h[it.node].count /\ ~is_root(h, it.node)
  THEN IncrementUp(h, Iter(h[it.node].parent, h[it.node].position))
  ELSE it

RECURSIVE DescendFirst(_, _)
DescendFirst(h, n) == IF h[n].leaf THEN n ELSE DescendFirst(h, child(h, n, 0))

RECURSIVE DescendLast(_, _)
DescendLast(h, n) ==
  IF h[n].leaf THEN n ELSE DescendLast(h, child(h, n, h[n].count))

increment_slow(h, it) ==
  IF h[it.node].leaf
  THEN LET up == IncrementUp(h, it)
       IN IF up.position = h[up.node].count THEN it ELSE up
  ELSE Iter(DescendFirst(h, child(h, it.node, it.position + 1)), 0)

increment(h, it) ==
  IF h[it.node].leaf
  THEN IF it.position + 1 < h[it.node].count
       THEN Iter(it.node, it.position + 1)
       ELSE increment_slow(h, Iter(it.node, it.position + 1))
  ELSE increment_slow(h, it)

RECURSIVE DecrementUp(_, _)
DecrementUp(h, it) ==
  IF it.position < 0 /\ ~is_root(h, it.node)
  THEN DecrementUp(h, Iter(h[it.node].parent, h[it.node].position - 1))
  ELSE it

\* Defect: the saved iterator is not restored when the climb ends at the
\* root.
decrement_slow_without_save(h, it) ==
  IF h[it.node].leaf
  THEN DecrementUp(h, it)
  ELSE LET n == DescendLast(h, child(h, it.node, it.position))
       IN Iter(n, h[n].count - 1)

decrement_slow(h, it) ==
  IF h[it.node].leaf
  THEN LET up == DecrementUp(h, it)
       IN IF up.position < 0 THEN it ELSE up
  ELSE LET n == DescendLast(h, child(h, it.node, it.position))
       IN Iter(n, h[n].count - 1)

decrement(h, it) ==
  IF h[it.node].leaf
  THEN IF it.position - 1 >= 0
       THEN Iter(it.node, it.position - 1)
       ELSE decrement_slow(h, Iter(it.node, it.position - 1))
  ELSE decrement_slow(h, it)

(***************************************************************************)
(* btree: accessors.  A tree t is [root, heap].                            *)
(***************************************************************************)
\* A btree object: the root pointer and the nodes, and its byte allocator:
\* the misuses it has seen, the number of requests it will grant before it
\* refuses one (-1: all), whether the next copy of a value throws, and
\* whether an exception is on its way to the caller.
Tree(r, h) ==
  [root |-> r, heap |-> h, misuse |-> {}, grants |-> -1,
   copy_throws |-> FALSE, thrown |-> FALSE]

empty(t) == t.root = NULL
rightmost(t) ==
  IF t.root = NULL \/ t.heap[t.root].leaf THEN t.root
  ELSE t.heap[t.root].rightmost
leftmost(t) == IF t.root # NULL THEN t.heap[t.root].parent ELSE NULL
begin(t) == Iter(leftmost(t), 0)
end(t) ==
  Iter(rightmost(t),
       IF rightmost(t) # NULL THEN t.heap[rightmost(t)].count ELSE 0)
size(t) ==
  IF empty(t) THEN 0
  ELSE IF t.heap[t.root].leaf THEN t.heap[t.root].count
  ELSE t.heap[t.root].size

set_rightmost(t, n) == [t EXCEPT !.heap[t.root].rightmost = n]
add_size(t, d) == [t EXCEPT !.heap[t.root].size = @ + d]

(***************************************************************************)
(* The assertions of the node operations.  An assertion that fails is      *)
(* recorded under the name of the function that makes it, next to the      *)
(* misuses of the allocator.                                               *)
(***************************************************************************)
Assertions ==
  {"rebalance_right_to_left", "rebalance_left_to_right", "split", "merge",
   "remove_value", "erase"}

asserted(t, what, holds) ==
  IF holds THEN t ELSE [t EXCEPT !.misuse = @ \cup {what}]

rebalance_right_to_left_asserts(h, n, src, to_move) ==
  /\ h[n].parent = h[src].parent
  /\ h[n].position + 1 = h[src].position
  /\ h[src].count >= h[n].count
  /\ to_move >= 1
  /\ to_move <= h[src].count

rebalance_left_to_right_asserts(h, n, dest, to_move) ==
  /\ h[n].parent = h[dest].parent
  /\ h[n].position + 1 = h[dest].position
  /\ h[n].count >= h[dest].count
  /\ to_move >= 1
  /\ to_move <= h[n].count

\* assert(dest->count() == 0), and assert(count() >= 1) once dest has been
\* given its count.
split_asserts(h, n, dest, insert_position) ==
  /\ h[dest].count = 0
  /\ h[n].count - (IF insert_position = 0 THEN h[n].count - 1
                   ELSE IF insert_position = h[n].max_count THEN 0
                   ELSE h[n].count \div 2) >= 1

merge_asserts(h, n, src) ==
  /\ h[n].parent = h[src].parent
  /\ h[n].position + 1 = h[src].position

remove_value_asserts(h, n, i) ==
  h[n].leaf \/ h[child(h, n, i + 1)].count = 0

\* The asserted calls as the tree routines make them.
call_rebalance_right_to_left(t, n, src, to_move) ==
  [asserted(t, "rebalance_right_to_left",
            rebalance_right_to_left_asserts(t.heap, n, src, to_move))
     EXCEPT !.heap = rebalance_right_to_left(t.heap, n, src, to_move)]

call_rebalance_left_to_right(t, n, dest, to_move) ==
  [asserted(t, "rebalance_left_to_right",
            rebalance_left_to_right_asserts(t.heap, n, dest, to_move))
     EXCEPT !.heap = rebalance_left_to_right(t.heap, n, dest, to_move)]

call_split(t, n, dest, insert_position) ==
  [asserted(t, "split", split_asserts(t.heap, n, dest, insert_position))
     EXCEPT !.heap = split(t.heap, n, dest, insert_position)]

call_merge(t, n, src) ==
  [asserted(asserted(t, "merge", merge_asserts(t.heap, n, src)),
            "remove_value",
            remove_value_asserts(merge_values(t.heap, n, src),
                                 t.heap[n].parent, t.heap[n].position))
     EXCEPT !.heap = merge(t.heap, n, src)]

(***************************************************************************)
(* btree: node creation and deletion                                       *)
(***************************************************************************)
\* p = allocate(bytes) and init_*(p, ...): the node nd at the address a,
\* unless the allocator refuses the request.
allocated(t, a, nd, bytes) ==
  IF t.grants = 0
  THEN [tree |-> [t EXCEPT !.thrown = TRUE], node |-> NULL]
  ELSE [tree |-> [t EXCEPT !.heap = @ @@ (a :> [nd EXCEPT !.bytes = bytes]),
                           !.grants = IF @ > 0 THEN @ - 1 ELSE @],
        node |-> a]

new_internal_node(t, parent) ==
  allocated(t, allocate(t.heap), init_internal(parent), sizeof_internal_fields)

new_internal_root_node(t) ==
  allocated(t, allocate(t.heap), init_root(t.heap, t.heap[t.root].parent),
            sizeof_root_fields)

new_leaf_node(t, parent) ==
  allocated(t, allocate(t.heap), init_leaf(parent, kNodeValues),
            sizeof_leaf_fields)

new_leaf_root_node(t, max_count) ==
  allocated(t, allocate(t.heap), init_leaf(allocate(t.heap), max_count),
            sizeof_base_fields + max_count * kValueSize)

\* deallocate(p, bytes): p must be a region the allocator handed out, with
\* this size.
released(t, n, bytes) ==
  [t EXCEPT !.heap = deallocate(@, n),
            !.misuse = @ \cup (IF n \notin DOMAIN t.heap THEN {"unallocated"}
                               ELSE IF t.heap[n].bytes # bytes THEN {"size"}
                               ELSE {})]

delete_internal_node(t, n) == released(t, n, sizeof_internal_fields)
delete_internal_root_node(t) == released(t, t.root, sizeof_root_fields)
delete_leaf_node(t, n) ==
  released(t, n, sizeof_base_fields + t.heap[n].max_count * kValueSize)

(***************************************************************************)
(* btree: lookup                                                           *)
(***************************************************************************)
RECURSIVE internal_last(_, _)
internal_last(h, it) ==
  IF it.node # NULL /\ it.position = h[it.node].count
  THEN LET p == h[it.node].parent
       IN internal_last(h, Iter(IF h[p].leaf THEN NULL ELSE p,
                                h[it.node].position))
  ELSE it

internal_end(t, it) == IF it.node # NULL THEN it ELSE end(t)

RECURSIVE internal_locate_plain_compare(_, _, _)
internal_locate_plain_compare(h, k, it) ==
  LET pos == lower_bound(h, it.node, k)
  IN IF h[it.node].leaf THEN Iter(it.node, pos)
     ELSE internal_locate_plain_compare(h, k, Iter(child(h, it.node, pos), 0))

RECURSIVE internal_locate_compare_to(_, _, _)
internal_locate_compare_to(h, k, it) ==
  LET res == lower_bound(h, it.node, k)
      pos == res % kExactMatch
  IN IF res >= kExactMatch
     THEN [first |-> Iter(it.node, pos), second |-> kExactMatch]
     ELSE IF h[it.node].leaf
     THEN [first |-> Iter(it.node, pos), second |-> -kExactMatch]
     ELSE internal_locate_compare_to(h, k, Iter(child(h, it.node, pos), 0))

\* internal_locate_type::dispatch: the plain path answers 0 in the second
\* member, the compare-to path kExactMatch or -kExactMatch.
internal_locate(h, k, it) ==
  IF is_key_compare_to THEN internal_locate_compare_to(h, k, it)
  ELSE [first |-> internal_locate_plain_compare(h, k, it), second |-> 0]

RECURSIVE LowerDescend(_, _, _)
LowerDescend(h, k, it) ==
  LET pos == lower_bound(h, it.node, k) % kExactMatch
  IN IF h[it.node].leaf THEN Iter(it.node, pos)
     ELSE LowerDescend(h, k, Iter(child(h, it.node, pos), 0))

internal_lower_bound(h, k, it) ==
  IF it.node # NULL THEN internal_last(h, LowerDescend(h, k, it)) ELSE it

RECURSIVE UpperDescend(_, _, _)
UpperDescend(h, k, it) ==
  LET pos == upper_bound(h, it.node, k)
  IN IF h[it.node].leaf THEN Iter(it.node, pos)
     ELSE UpperDescend(h, k, Iter(child(h, it.node, pos), 0))

internal_upper_bound(h, k, it) ==
  IF it.node # NULL THEN internal_last(h, UpperDescend(h, k, it)) ELSE it

internal_find_unique(h, k, it) ==
  IF it.node = NULL THEN Iter(NULL, 0)
  ELSE LET res == internal_locate(h, k, it)
           last == internal_last(h, res.first)
       IN IF res.second = kExactMatch THEN res.first
          ELSE IF res.second = 0 /\ last.node # NULL
                  /\ ~compare_keys(k, key(h, last.node, last.position))
          THEN last
          ELSE Iter(NULL, 0)

\* Defect: the element at the lower bound is returned without looking at
\* its key.
internal_find_multi_unchecked(h, k, it) ==
  IF it.node = NULL THEN Iter(NULL, 0)
  ELSE internal_last(h, internal_lower_bound(h, k, it))
internal_find_multi(h, k, it) ==
  IF it.node = NULL THEN Iter(NULL, 0)
  ELSE LET lb == internal_lower_bound(h, k, it)
           last == internal_last(h, lb)
       IN IF lb.node # NULL /\ last.node # NULL
             /\ ~compare_keys(k, key(h, last.node, last.position))
          THEN last
          ELSE Iter(NULL, 0)

(***************************************************************************)
(* btree: insertion                                                        *)
(***************************************************************************)
\* The end of rebalance_or_split: split has run on the tree t; fix
\* rightmost.
split_rightmost(t, node, split_node) ==
  IF t.heap[node].leaf /\ rightmost(t) = node
  THEN set_rightmost(t, split_node)
  ELSE t

\* ... and retarget the pending insertion.
split_retarget(t, node, split_node, insert_position) ==
  [tree |-> t,
   iter |-> IF insert_position > t.heap[node].count
            THEN Iter(split_node, insert_position - t.heap[node].count - 1)
            ELSE Iter(node, insert_position)]

\* An exception leaves the routine: there is no iterator to go on with.
Propagated(t) == [tree |-> t, iter |-> Iter(NULL, 0)]

\* nn is the freshly allocated sibling: [tree, node].
split_with(nn, node, insert_position) ==
  IF nn.tree.thrown THEN Propagated(nn.tree) ELSE
  split_retarget(
    split_rightmost(call_split(nn.tree, node, nn.node, insert_position),
                    node, nn.node),
    node, nn.node, insert_position)

\* "Split the node": s is [tree, node, parent] as the branches above it
\* leave them.
split_step(s, insert_position) ==
  IF s.tree.thrown THEN Propagated(s.tree) ELSE
  split_with(IF s.tree.heap[s.node].leaf
             THEN new_leaf_node(s.tree, s.parent)
             ELSE new_internal_node(s.tree, s.parent),
             s.node, insert_position)

\* The root is a leaf: nr is the new internal root, the old root becomes
\* its child 0 and is the node to split.
root_above(nr, old_root) ==
  IF nr.tree.thrown THEN [tree |-> nr.tree, node |-> NULL, parent |-> NULL]
  ELSE
  [tree |-> [nr.tree EXCEPT
               !.root = nr.node,
               !.heap = set_child(nr.tree.heap, nr.node, 0, old_root)],
   node |-> old_root,
   parent |-> nr.node]

\* The root is internal: nn is a new internal node that takes over the
\* root's contents and is the node to split; the root object stays.
root_below(nn, old_root) ==
  IF nn.tree.thrown THEN [tree |-> nn.tree, node |-> NULL, parent |-> NULL]
  ELSE
  [tree |-> [nn.tree EXCEPT
               !.heap = swap(set_child(nn.tree.heap, nn.node, 0, nn.node),
                             nn.node, old_root)],
   node |-> nn.node,
   parent |-> nn.node]

\* The iterator after values moved to the left sibling.
rebalanced_left(t, left, node, insert_position) ==
  [tree |-> t,
   iter |-> IF insert_position < 0
            THEN Iter(left, insert_position + t.heap[left].count + 1)
            ELSE Iter(node, insert_position)]

\* Defect: the position in the right sibling is one too far.
rebalanced_right_off_by_one(t, node, right, insert_position) ==
  [tree |-> t,
   iter |-> IF insert_position > t.heap[node].count
            THEN Iter(right, insert_position - t.heap[node].count)
            ELSE Iter(node, insert_position)]

\* The iterator after values moved to the right sibling.
rebalanced_right(t, node, right, insert_position) ==
  [tree |-> t,
   iter |-> IF insert_position > t.heap[node].count
            THEN Iter(right, insert_position - t.heap[node].count - 1)
            ELSE Iter(node, insert_position)]

RECURSIVE rebalance_or_split(_, _)
rebalance_or_split(t, iter) ==
  LET h == t.heap
      node == iter.node
      insert_position == iter.position
      parent == h[node].parent
      npos == h[node].position
      left == child(h, parent, npos - 1)
      right == child(h, parent, npos + 1)
      lmove == Max2(1, (h[left].max_count - h[left].count) \div
                         (1 + (IF insert_position < h[left].max_count
                               THEN 1 ELSE 0)))
      rmove == Max2(1, (h[right].max_count - h[right].count) \div
                         (1 + (IF insert_position > 0 THEN 1 ELSE 0)))
      useLeft == /\ node # t.root
                 /\ npos > 0
                 /\ h[left].count < h[left].max_count
                 /\ \/ insert_position - lmove >= 0
                    \/ h[left].count + lmove < h[left].max_count
      useRight == /\ node # t.root
                  /\ npos < h[parent].count
                  /\ h[right].count < h[right].max_count
                  /\ \/ insert_position <= h[node].count - rmove
                     \/ h[right].count + rmove < h[right].max_count
  IN IF useLeft
     THEN rebalanced_left(call_rebalance_right_to_left(t, left, node, lmove),
                          left, node, insert_position - lmove)
     ELSE IF useRight
     THEN rebalanced_right(call_rebalance_left_to_right(t, node, right, rmove),
                           node, right, insert_position)
     ELSE split_step(
            IF node # t.root
            THEN \* Rebalancing failed: make room on the parent first.
                 [tree |-> IF h[parent].count = h[parent].max_count
                           THEN rebalance_or_split(t, Iter(parent, npos)).tree
                           ELSE t,
                  node |-> node,
                  parent |-> parent]
            ELSE IF h[t.root].leaf
            THEN root_above(new_internal_root_node(t), t.root)
            ELSE root_below(new_internal_node(t, parent), t.root),
            insert_position)

\* The small root is full: nn is a leaf root of twice the capacity, which
\* takes the contents; the old root is deleted.
grow_root(nn, old_root, position) ==
  IF nn.tree.thrown THEN Propagated(nn.tree) ELSE
  [tree |-> [delete_leaf_node(
               [nn.tree EXCEPT !.heap = swap(nn.tree.heap, nn.node, old_root)],
               old_root)
               EXCEPT !.root = nn.node],
   iter |-> Iter(nn.node, position)]

\* ++*mutable_size() after rebalance_or_split.
count_one(rs) ==
  IF rs.tree.thrown THEN rs
  ELSE [tree |-> add_size(rs.tree, 1), iter |-> rs.iter]

\* Defect: a full small root is split like any other full node.
make_room_splits_small_root(t, iter) ==
  LET h == t.heap
  IN IF h[iter.node].count = h[iter.node].max_count
     THEN count_one(rebalance_or_split(t, iter))
     ELSE IF ~h[t.root].leaf
     THEN [tree |-> add_size(t, 1), iter |-> iter]
     ELSE [tree |-> t, iter |-> iter]
\* Defect: the small root grows to the full node size at once.
make_room_grows_to_full(t, iter) ==
  LET h == t.heap
  IN IF h[iter.node].count = h[iter.node].max_count
     THEN IF h[iter.node].max_count < kNodeValues
          THEN grow_root(new_leaf_root_node(t, kNodeValues),
                         t.root, iter.position)
          ELSE count_one(rebalance_or_split(t, iter))
     ELSE IF ~h[t.root].leaf
     THEN [tree |-> add_size(t, 1), iter |-> iter]
     ELSE [tree |-> t, iter |-> iter]
\* internal_insert up to the final insert_value: the tree with room at iter.
make_room(t, iter) ==
  LET h == t.heap
  IN IF h[iter.node].count = h[iter.node].max_count
     THEN IF h[iter.node].max_count < kNodeValues
          THEN grow_root(new_leaf_root_node(
                           t, Min2(kNodeValues, 2 * h[iter.node].max_count)),
                         t.root, iter.position)
          ELSE count_one(rebalance_or_split(t, iter))
     ELSE IF ~h[t.root].leaf
     THEN [tree |-> add_size(t, 1), iter |-> iter]
     ELSE [tree |-> t, iter |-> iter]

\* iter.node->insert_value(iter.position, v); return iter.  The first
\* thing insert_value does is value_init(count(), x), the copy of the value.
insert_at(r, v) ==
  IF r.tree.thrown THEN r
  ELSE IF r.tree.copy_throws
  THEN Propagated([r.tree EXCEPT !.thrown = TRUE])
  ELSE [tree |-> [r.tree EXCEPT
                    !.heap = insert_value(r.tree.heap, r.iter.node,
                                          r.iter.position, v)],
        iter |-> r.iter]

\* Defect: the iterator handed in is returned, not the one that
\* rebalance_or_split and the root growth have moved.
internal_insert_stale(t, iter, v) ==
  [tree |-> insert_at(make_room(t, IF ~t.heap[iter.node].leaf
                                   THEN LET d == decrement(t.heap, iter)
                                        IN Iter(d.node, d.position + 1)
                                   ELSE iter),
                      v).tree,
   iter |-> iter]
internal_insert(t, iter, v) ==
  insert_at(make_room(t, IF ~t.heap[iter.node].leaf
                         THEN LET d == decrement(t.heap, iter)
                              IN Iter(d.node, d.position + 1)
                         ELSE iter),
            v)

\* if (empty()) *mutable_root() = new_leaf_root_node(1).
set_root(nn) ==
  IF nn.tree.thrown THEN nn.tree ELSE [nn.tree EXCEPT !.root = nn.node]
ensure_root(t) == IF empty(t) THEN set_root(new_leaf_root_node(t, 1)) ELSE t

\* std::make_pair(internal_insert(iter, *value), true): the one place where
\* the value pointer is dereferenced.
inserted_pair(r) ==
  [tree |-> r.tree, iter |-> r.iter, inserted |-> TRUE, dereferenced |-> TRUE]

\* Defect: on a present key the leaf position of the search is returned,
\* not the position of the element.
insert_unique_returns_search(t, v) ==
  LET k == KeyOf(v)
      res == internal_locate(t.heap, k, Iter(t.root, 0))
      last == internal_last(t.heap, res.first)
  IN IF res.second = kExactMatch
     THEN [tree |-> t, iter |-> res.first, inserted |-> FALSE,
           dereferenced |-> FALSE]
     ELSE IF res.second = 0 /\ last.node # NULL
             /\ ~compare_keys(k, key(t.heap, last.node, last.position))
     THEN [tree |-> t, iter |-> res.first, inserted |-> FALSE,
           dereferenced |-> FALSE]
     ELSE inserted_pair(internal_insert(t, res.first, v))
\* Defect: the value is built from the pointer before the key is looked up.
insert_unique_eager(t, v) ==
  LET k == KeyOf(v)
      res == internal_locate(t.heap, k, Iter(t.root, 0))
      last == internal_last(t.heap, res.first)
  IN IF res.second = kExactMatch
     THEN [tree |-> t, iter |-> last, inserted |-> FALSE,
           dereferenced |-> TRUE]
     ELSE IF res.second = 0 /\ last.node # NULL
             /\ ~compare_keys(k, key(t.heap, last.node, last.position))
     THEN [tree |-> t, iter |-> last, inserted |-> FALSE,
           dereferenced |-> TRUE]
     ELSE inserted_pair(internal_insert(t, res.first, v))
\* insert_unique below the creation of the root.
insert_unique_rooted(t, v) ==
  LET k == KeyOf(v)
      res == internal_locate(t.heap, k, Iter(t.root, 0))
      last == internal_last(t.heap, res.first)
  IN IF res.second = kExactMatch
     THEN [tree |-> t, iter |-> last, inserted |-> FALSE,
           dereferenced |-> FALSE]
     ELSE IF res.second = 0 /\ last.node # NULL
             /\ ~compare_keys(k, key(t.heap, last.node, last.position))
     THEN [tree |-> t, iter |-> last, inserted |-> FALSE,
           dereferenced |-> FALSE]
     ELSE inserted_pair(internal_insert(t, res.first, v))

\* insert_unique(key, value): <<iterator, inserted>>.
insert_unique(t, v) ==
  IF ensure_root(t).thrown
  THEN inserted_pair(Propagated(ensure_root(t)))
  ELSE insert_unique_rooted(ensure_root(t), v)

\* insert_unique(v).first
pair_first(r) == [tree |-> r.tree, iter |-> r.iter]

\* Defect: the element before the hint is not compared with the key.
insert_unique_hint_unchecked(t, position, v) ==
  LET h == t.heap
      k == KeyOf(v)
      next == increment(h, position)
  IN IF empty(t) THEN pair_first(insert_unique(t, v))
     ELSE IF position = end(t)
             \/ compare_keys(k, key(h, position.node, position.position))
     THEN internal_insert(t, position, v)
     ELSE IF compare_keys(key(h, position.node, position.position), k)
     THEN IF next = end(t) \/ compare_keys(k, key(h, next.node, next.position))
          THEN internal_insert(t, next, v)
          ELSE pair_first(insert_unique(t, v))
     ELSE [tree |-> t, iter |-> position]
\* insert_unique(position, v).
insert_unique_hint(t, position, v) ==
  LET h == t.heap
      k == KeyOf(v)
      prev == decrement(h, position)
      next == increment(h, position)
  IN IF empty(t) THEN pair_first(insert_unique(t, v))
     ELSE IF position = end(t)
             \/ compare_keys(k, key(h, position.node, position.position))
     THEN IF position = begin(t)
             \/ compare_keys(key(h, prev.node, prev.position), k)
          THEN internal_insert(t, position, v)
          ELSE pair_first(insert_unique(t, v))
     ELSE IF compare_keys(key(h, position.node, position.position), k)
     THEN IF next = end(t) \/ compare_keys(k, key(h, next.node, next.position))
          THEN internal_insert(t, next, v)
          ELSE pair_first(insert_unique(t, v))
     ELSE [tree |-> t, iter |-> position]

\* Defect: the value lands at the lower bound of its key.
insert_multi_at_lower_bound(t, v) ==
  LET lb == internal_lower_bound(t.heap, KeyOf(v), Iter(t.root, 0))
  IN internal_insert(t, IF lb.node = NULL THEN end(t) ELSE lb, v)
\* insert_multi below the creation of the root.
insert_multi_rooted(t, v) ==
  LET ub == internal_upper_bound(t.heap, KeyOf(v), Iter(t.root, 0))
  IN internal_insert(t, IF ub.node = NULL THEN end(t) ELSE ub, v)

\* insert_multi(key, value).
insert_multi(t, v) ==
  IF ensure_root(t).thrown
  THEN Propagated(ensure_root(t))
  ELSE insert_multi_rooted(ensure_root(t), v)

\* Defect: the element before the hint is not compared with the key.
insert_multi_hint_unchecked(t, position, v) ==
  LET h == t.heap
      k == KeyOf(v)
      next == increment(h, position)
  IN IF empty(t) THEN insert_multi(t, v)
     ELSE IF position = end(t)
             \/ ~compare_keys(key(h, position.node, position.position), k)
     THEN internal_insert(t, position, v)
     ELSE IF next = end(t) \/ ~compare_keys(key(h, next.node, next.position), k)
     THEN internal_insert(t, next, v)
     ELSE insert_multi(t, v)
\* insert_multi(position, v).
insert_multi_hint(t, position, v) ==
  LET h == t.heap
      k == KeyOf(v)
      prev == decrement(h, position)
      next == increment(h, position)
  IN IF empty(t) THEN insert_multi(t, v)
     ELSE IF position = end(t)
             \/ ~compare_keys(key(h, position.node, position.position), k)
     THEN IF position = begin(t)
             \/ ~compare_keys(k, key(h, prev.node, prev.position))
          THEN internal_insert(t, position, v)
          ELSE insert_multi(t, v)
     ELSE IF next = end(t) \/ ~compare_keys(key(h, next.node, next.position), k)
     THEN internal_insert(t, next, v)
     ELSE insert_multi(t, v)

(***************************************************************************)
(* btree: erasure                                                          *)
(***************************************************************************)
\* Defect: rightmost is not moved off the leaf that goes away.
delete_right_keeps_rightmost(t, left, right) ==
  IF t.heap[right].leaf
  THEN delete_leaf_node(t, right)
  ELSE delete_internal_node(t, right)
\* Defect: right is not deleted after the merge.
delete_right_leaks(t, left, right) ==
  IF t.heap[right].leaf /\ rightmost(t) = right
  THEN set_rightmost(t, left)
  ELSE t
\* merge_nodes after left->merge(right): right goes away.
delete_right(t, left, right) ==
  IF t.heap[right].leaf
  THEN delete_leaf_node(IF rightmost(t) = right
                        THEN set_rightmost(t, left) ELSE t,
                        right)
  ELSE delete_internal_node(t, right)

merge_nodes(t, left, right) ==
  delete_right(call_merge(t, left, right), left, right)

\* Defect: rebalancing with the left sibling is tried before rebalancing
\* with the right one.
try_merge_or_rebalance_left_first(t, iter) ==
  LET h == t.heap
      node == iter.node
      parent == h[node].parent
      npos == h[node].position
      left == child(h, parent, npos - 1)
      right == child(h, parent, npos + 1)
      hasLeft == npos > 0
      hasRight == npos < h[parent].count
      rmove == Min2((h[right].count - h[node].count) \div 2,
                    h[right].count - 1)
      lmove == Min2((h[left].count - h[node].count) \div 2,
                    h[left].count - 1)
  IN IF hasLeft /\ 1 + h[left].count + h[node].count <= h[left].max_count
     THEN [tree |-> merge_nodes(t, left, node),
           iter |-> Iter(left, iter.position + 1 + h[left].count),
           merged |-> TRUE]
     ELSE IF hasRight
             /\ 1 + h[node].count + h[right].count <= h[right].max_count
     THEN [tree |-> merge_nodes(t, node, right), iter |-> iter,
           merged |-> TRUE]
     ELSE IF hasLeft /\ h[left].count > kMinNodeValues
             /\ (h[node].count = 0 \/ iter.position < h[node].count)
     THEN [tree |-> [t EXCEPT !.heap =
                       rebalance_left_to_right(h, left, node, lmove)],
           iter |-> Iter(node, iter.position + lmove), merged |-> FALSE]
     ELSE IF hasRight /\ h[right].count > kMinNodeValues
             /\ (h[node].count = 0 \/ iter.position > 0)
     THEN [tree |-> [t EXCEPT !.heap =
                       rebalance_right_to_left(h, node, right, rmove)],
           iter |-> iter, merged |-> FALSE]
     ELSE [tree |-> t, iter |-> iter, merged |-> FALSE]

\* try_merge_or_rebalance(&iter): the tree, the adjusted iter, and merged.
try_merge_or_rebalance(t, iter) ==
  LET h == t.heap
      node == iter.node
      parent == h[node].parent
      npos == h[node].position
      left == child(h, parent, npos - 1)
      right == child(h, parent, npos + 1)
      hasLeft == npos > 0
      hasRight == npos < h[parent].count
      rmove == Min2((h[right].count - h[node].count) \div 2,
                    h[right].count - 1)
      lmove == Min2((h[left].count - h[node].count) \div 2,
                    h[left].count - 1)
  IN IF hasLeft /\ 1 + h[left].count + h[node].count <= h[left].max_count
     THEN [tree |-> merge_nodes(t, left, node),
           iter |-> Iter(left, iter.position + 1 + h[left].count),
           merged |-> TRUE]
     ELSE IF hasRight
             /\ 1 + h[node].count + h[right].count <= h[right].max_count
     THEN [tree |-> merge_nodes(t, node, right), iter |-> iter,
           merged |-> TRUE]
     ELSE IF hasRight /\ h[right].count > kMinNodeValues
             /\ (h[node].count = 0 \/ iter.position > 0)
     THEN [tree |-> call_rebalance_right_to_left(t, node, right, rmove),
           iter |-> iter, merged |-> FALSE]
     ELSE IF hasLeft /\ h[left].count > kMinNodeValues
             /\ (h[node].count = 0 \/ iter.position < h[node].count)
     THEN [tree |-> call_rebalance_left_to_right(t, left, node, lmove),
           iter |-> Iter(node, iter.position + lmove), merged |-> FALSE]
     ELSE [tree |-> t, iter |-> iter, merged |-> FALSE]

\* Defect: only a leaf root is dropped; an internal root that has lost its
\* last value stays.
try_shrink_leaf_only(t) ==
  LET h == t.heap
  IN IF h[t.root].count > 0 \/ ~h[t.root].leaf THEN t
     ELSE [delete_leaf_node(t, t.root) EXCEPT !.root = NULL]

\* Defect: an internal root that has lost its last value is dropped together
\* with the leaf below it.
try_shrink_drops_child(t) ==
  LET h == t.heap
      c == child(h, t.root, 0)
  IN IF h[t.root].count > 0 THEN t
     ELSE IF h[t.root].leaf
     THEN [delete_leaf_node(t, t.root) EXCEPT !.root = NULL]
     ELSE IF h[c].leaf
     THEN [delete_internal_root_node(delete_leaf_node(t, c))
             EXCEPT !.root = NULL]
     ELSE delete_internal_node([t EXCEPT !.heap = swap(h, c, t.root)], c)

\* Defect: a leaf root that has lost its last value stays the root.
try_shrink_keeps_leaf_root(t) ==
  LET h == t.heap
      c == child(h, t.root, 0)
  IN IF h[t.root].count > 0 \/ h[t.root].leaf THEN t
     ELSE IF h[c].leaf
     THEN LET h1 == [h EXCEPT ![c].parent = h[h[c].parent].parent]
          IN [delete_internal_root_node([t EXCEPT !.heap = h1])
                EXCEPT !.root = c]
     ELSE delete_internal_node([t EXCEPT !.heap = swap(h, c, t.root)], c)

try_shrink(t) ==
  LET h == t.heap
      c == child(h, t.root, 0)
  IN IF h[t.root].count > 0 THEN t
     ELSE IF h[t.root].leaf
     THEN [delete_leaf_node(t, t.root) EXCEPT !.root = NULL]
     ELSE IF h[c].leaf
     THEN \* child->make_root(); the old root object goes away.
          LET h1 == [h EXCEPT ![c].parent = h[h[c].parent].parent]
          IN [delete_internal_root_node([t EXCEPT !.heap = h1])
                EXCEPT !.root = c]
     ELSE delete_internal_node([t EXCEPT !.heap = swap(h, c, t.root)], c)

\* The merge/rebalance loop of erase: the tree, res, and whether the tree
\* became empty.
RECURSIVE erase_walk(_, _, _)

\* One turn of the loop after try_merge_or_rebalance answered m.
erase_merged(m, res) ==
  LET res1 == IF m.tree.heap[m.iter.node].leaf THEN m.iter ELSE res
  IN IF ~m.merged
     THEN [tree |-> m.tree, res |-> res1, emptied |-> FALSE]
     ELSE erase_walk(m.tree,
                     Iter(m.tree.heap[m.iter.node].parent, m.iter.position),
                     res1)

\* The loop has reached the root and try_shrink has run.
erase_shrunk(t, res) == [tree |-> t, res |-> res, emptied |-> empty(t)]

erase_walk(t, iter, res) ==
  IF iter.node = t.root
  THEN erase_shrunk(try_shrink(t), res)
  ELSE IF t.heap[iter.node].count >= kMinNodeValues
  THEN [tree |-> t, res |-> res, emptied |-> FALSE]
  ELSE erase_merged(try_merge_or_rebalance(t, iter), res)

\* The position the value is removed from: the erased position in a leaf,
\* the in-order predecessor for an internal position.
erase_target(h, iter) ==
  IF ~h[iter.node].leaf THEN decrement(h, iter) ELSE iter

\* erase up to remove_value: swap with the predecessor, count, remove.
erase_remove(t, iter0) ==
  LET h == t.heap
      internal_delete == ~h[iter0.node].leaf
      iter == erase_target(h, iter0)
      h1 == IF internal_delete
            THEN [h EXCEPT
                    ![iter.node].values[iter.position + 1] =
                       value(h, iter0.node, iter0.position),
                    ![iter0.node].values[iter0.position + 1] =
                       value(h, iter.node, iter.position)]
            ELSE h
      t1 == IF internal_delete \/ ~h[t.root].leaf
            THEN add_size([t EXCEPT !.heap = h1], -1)
            ELSE t
  IN [asserted(
        asserted(t1, "erase",
                 internal_delete =>
                   /\ h[iter.node].leaf
                   /\ ~compare_keys(key(h, iter0.node, iter0.position),
                                    key(h, iter.node, iter.position))),
        "remove_value", remove_value_asserts(t1.heap, iter.node, iter.position))
        EXCEPT !.heap = remove_value(t1.heap, iter.node, iter.position)]

\* Defect: res is not moved past the value that took the place of an erased
\* internal value.
erase_advance_once(h, res, internal_delete) ==
  IF res.position = h[res.node].count
  THEN increment(h, Iter(res.node, h[res.node].count - 1))
  ELSE res
\* erase after the loop: move res to the next value.
erase_advance(h, res, internal_delete) ==
  LET res1 == IF res.position = h[res.node].count
              THEN increment(h, Iter(res.node, h[res.node].count - 1))
              ELSE res
  IN IF internal_delete THEN increment(h, res1) ELSE res1

erase_result(w, internal_delete) ==
  IF w.emptied THEN [tree |-> w.tree, iter |-> end(w.tree)]
  ELSE [tree |-> w.tree,
        iter |-> erase_advance(w.tree.heap, w.res, internal_delete)]

\* erase(iter): the tree and the returned iterator.
erase(t, iter) ==
  erase_result(erase_walk(erase_remove(t, iter),
                          erase_target(t.heap, iter),
                          erase_target(t.heap, iter)),
               ~t.heap[iter.node].leaf)

\* Defect: the element at the lower bound of the key is erased, whether or
\* not it has the key.
erase_unique_at_lower_bound(t, k) ==
  LET iter == internal_lower_bound(t.heap, k, Iter(t.root, 0))
  IN IF iter.node = NULL THEN [tree |-> t, count |-> 0]
     ELSE [tree |-> erase(t, iter).tree, count |-> 1]
\* erase_unique(key): the tree and the number of values erased.
erase_unique(t, k) ==
  LET iter == internal_find_unique(t.heap, k, Iter(t.root, 0))
  IN IF iter.node = NULL THEN [tree |-> t, count |-> 0]
     ELSE [tree |-> erase(t, iter).tree, count |-> 1]

\* std::distance(b, e): the number of ++ that take b to e.
RECURSIVE distance(_, _, _)
distance(t, b, e) ==
  IF b = e THEN 0 ELSE 1 + distance(t, increment(t.heap, b), e)

\* The loop of erase(begin, end): begin = erase(begin), n times; r is the
\* tree and begin.
RECURSIVE erase_times(_, _)
erase_times(r, n) ==
  IF n = 0 THEN r.tree ELSE erase_times(erase(r.tree, r.iter), n - 1)

\* Defect: the element at end is erased too.
erase_range_inclusive(t, b, e) ==
  [tree |-> erase_times([tree |-> t, iter |-> b],
                        distance(t, b, e) + (IF e = end(t) THEN 0 ELSE 1)),
   count |-> distance(t, b, e) + (IF e = end(t) THEN 0 ELSE 1)]
\* erase(begin, end): the tree and the number of values erased.
erase_range(t, b, e) ==
  [tree |-> erase_times([tree |-> t, iter |-> b], distance(t, b, e)),
   count |-> distance(t, b, e)]

\* Defect: one element is erased, as erase_unique does.
erase_multi_one(t, k) ==
  LET b == internal_lower_bound(t.heap, k, Iter(t.root, 0))
  IN IF b.node = NULL THEN [tree |-> t, count |-> 0]
     ELSE [tree |-> erase(t, b).tree, count |-> 1]
\* erase_multi(key): the tree and the number of values erased.
erase_multi(t, k) ==
  LET b == internal_lower_bound(t.heap, k, Iter(t.root, 0))
  IN IF b.node = NULL THEN [tree |-> t, count |-> 0]
     ELSE erase_range(t, b,
                      internal_end(t, internal_upper_bound(t.heap, k,
                                                           Iter(t.root, 0))))

RECURSIVE internal_clear(_, _, _)
RECURSIVE ClearChildren(_, _, _, _)
\* Defect: the last child is left out of the loop.
ClearChildren_but_last(t, h0, n, i) ==
  IF i >= h0[n].count THEN t
  ELSE ClearChildren(internal_clear(t, h0, child(h0, n, i)), h0, n, i + 1)
ClearChildren(t, h0, n, i) ==
  IF i > h0[n].count THEN t
  ELSE ClearChildren(internal_clear(t, h0, child(h0, n, i)), h0, n, i + 1)

\* h0 is the heap before the first deletion: a node is read before it is
\* deallocated, its children are deallocated before it.
internal_clear(t, h0, n) ==
  IF ~h0[n].leaf
  THEN LET t1 == ClearChildren(t, h0, n, 0)
       IN IF n = t.root THEN delete_internal_root_node(t1)
          ELSE delete_internal_node(t1, n)
  ELSE delete_leaf_node(t, n)

\* Defect: an internal root survives the deletion of what is below it.
clear_below_root(t) ==
  IF t.root # NULL /\ ~t.heap[t.root].leaf
  THEN ClearChildren(t, t.heap, t.root, 0)
  ELSE IF t.root # NULL
  THEN [delete_leaf_node(t, t.root) EXCEPT !.root = NULL]
  ELSE t

clear(t) ==
  IF t.root # NULL
  THEN [internal_clear(t, t.heap, t.root) EXCEPT !.root = NULL]
  ELSE [t EXCEPT !.root = NULL]

\* The loop of assign: for (iter = x.begin(); iter != x.end(); ++iter), the
\* first value through insert_multi, every later one through
\* internal_insert(end(), *iter).
RECURSIVE assign_from(_, _, _, _)
assign_from(t, x, iter, fuel) ==
  IF iter = end(x) \/ fuel = 0 THEN t
  ELSE assign_from(
         IF empty(t)
         THEN insert_multi(t, value(x.heap, iter.node, iter.position)).tree
         ELSE internal_insert(
                t, end(t), value(x.heap, iter.node, iter.position)).tree,
         x, increment(x.heap, iter), fuel - 1)

\* Defect: the former contents are kept.
assign_without_clear(t, x) == assign_from(t, x, begin(x), size(x) + 1)

assign(t, x) == assign_from(clear(t), x, begin(x), size(x) + 1)

\* operator=; same says that &x == this.
operator_assign(t, x, same) == IF same THEN t ELSE assign(t, x)

\* operator== of the containers: equal sizes, then value by value.
RECURSIVE equal_from(_, _, _, _, _)
equal_from(t, x, i, xi, fuel) ==
  IF i = end(t) \/ fuel = 0 THEN TRUE
  ELSE IF value(t.heap, i.node, i.position)
            # value(x.heap, xi.node, xi.position) THEN FALSE
  ELSE equal_from(t, x, increment(t.heap, i), increment(x.heap, xi), fuel - 1)

equal(t, x) ==
  IF size(t) # size(x) THEN FALSE
  ELSE equal_from(t, x, begin(t), begin(x), size(t) + 1)


(***************************************************************************)
(* Addresses.  The code only ever compares addresses for equality, so the  *)
(* state after each call is recorded up to a renaming of addresses: the    *)
(* nodes reachable from the root are numbered in preorder, any other node  *)
(* still allocated after them.                                             *)
(***************************************************************************)
RECURSIVE Preorder(_, _)
RECURSIVE PreorderKids(_, _, _)
Preorder(h, n) ==
  IF n \notin DOMAIN h THEN <<>>
  ELSE IF h[n].leaf THEN <<n>>
  ELSE <<n>> \o PreorderKids(h, n, 0)
PreorderKids(h, n, i) ==
  IF i > h[n].count THEN <<>>
  ELSE Preorder(h, child(h, n, i)) \o PreorderKids(h, n, i + 1)

RECURSIVE Ascending(_)
Ascending(S) ==
  IF S = {} THEN <<>>
  ELSE LET m == CHOOSE x \in S : \A y \in S : x <= y
       IN <<m>> \o Ascending(S \ {m})

Reachable(t) == Preorder(t.heap, t.root)

Relocation(t) ==
  LET reach == Reachable(t)
      order == reach \o
               Ascending(DOMAIN t.heap \ {reach[i] : i \in DOMAIN reach})
  IN [n \in DOMAIN t.heap |->
        CHOOSE i \in DOMAIN order :
          order[i] = n /\ \A j \in 1..(i - 1) : order[j] # n]

Moved(map, p) == IF p \in DOMAIN map THEN map[p] ELSE NULL

MovedIter(map, it) == Iter(Moved(map, it.node), it.position)

Renamed(t, map) ==
  LET h == t.heap
      inv == [a \in {map[n] : n \in DOMAIN h} |->
                CHOOSE n \in DOMAIN h : map[n] = a]
  IN [t EXCEPT
        !.root = Moved(map, t.root),
        !.heap = [a \in DOMAIN inv |->
                    [h[inv[a]] EXCEPT
                       !.parent = Moved(map, @),
                       !.rightmost = Moved(map, @),
                       !.children = [j \in DOMAIN @ |-> Moved(map, @[j])]]]]

Relocate(t) == Renamed(t, Relocation(t))

(***************************************************************************)
(* What a caller can see and name                                          *)
(***************************************************************************)
Now == [Tree(root, heap) EXCEPT !.misuse = misuse]

\* Iterators designating an element.
Positions(t) ==
  LET reach == Reachable(t)
  IN {Iter(reach[i], p) : i \in DOMAIN reach, p \in 0..(kNodeValues - 1)}
     \cap {it \in [node : DOMAIN t.heap, position : 0..(kNodeValues - 1)] :
             it.position < t.heap[it.node].count}

\* Valid hints: an element, or end().
Hints(t) == Positions(t) \cup {end(t)}

\* begin()..end() as a caller walks it with operator++.
RECURSIVE Walk(_, _, _)
Walk(t, it, fuel) ==
  IF it = end(t) \/ fuel = 0 THEN <<>>
  ELSE <<value(t.heap, it.node, it.position)>>
       \o Walk(t, increment(t.heap, it), fuel - 1)

Iteration(t) == IF empty(t) THEN <<>> ELSE Walk(t, begin(t), size(t) + 1)

NoOp == [name |-> "none"]
NoRet == [name |-> "none"]

(***************************************************************************)
(* Initial state and the public calls                                      *)
(***************************************************************************)
Init ==
  /\ kNodeValues \in NodeValuesChoices
  /\ kValueSize = kPointerSize
  /\ is_key_compare_to \in BOOLEAN
  /\ root = NULL
  /\ heap = [n \in {} |-> NULL]
  /\ misuse = {}
  /\ other = Tree(NULL, [n \in {} |-> NULL])
  /\ ref = {}
  /\ clock = 0
  /\ op = NoOp
  /\ ret = NoRet

Commit(t) ==
  \E c \in {Relocate(t)} :
    root' = c.root /\ heap' = c.heap /\ misuse' = c.misuse

\* An iterator into t, as the caller holds it after the call.
Returned(t, it) == MovedIter(Relocation(t), it)

Observe(observed, call, result) ==
  /\ op' = IF observed THEN call ELSE NoOp
  /\ ret' = IF observed THEN result ELSE NoRet

CallInsertUnique(k, observed) ==
  \E r \in {insert_unique(Now, <<k, 0>>)} :
    /\ Commit(r.tree)
    /\ ref' = ref \cup {<<k, 0>>}
    /\ Observe(observed, [name |-> "insert_unique", key |-> k],
               [iter |-> Returned(r.tree, r.iter), inserted |-> r.inserted,
                dereferenced |-> r.dereferenced])
    /\ UNCHANGED <<kNodeValues, kValueSize, is_key_compare_to, other, clock>>

CallInsertUniqueHint(position, k, observed) ==
  \E r \in {insert_unique_hint(Now, position, <<k, 0>>)} :
    /\ Commit(r.tree)
    /\ ref' = ref \cup {<<k, 0>>}
    /\ Observe(observed, [name |-> "insert_unique_hint", key |-> k],
               [iter |-> Returned(r.tree, r.iter)])
    /\ UNCHANGED <<kNodeValues, kValueSize, is_key_compare_to, other, clock>>

CallEraseUnique(k, observed) ==
  \E r \in {erase_unique(Now, k)} :
    /\ Commit(r.tree)
    /\ ref' = ref \ {<<k, 0>>}
    /\ Observe(observed, [name |-> "erase_unique", key |-> k],
               [count |-> r.count])
    /\ UNCHANGED <<kNodeValues, kValueSize, is_key_compare_to, other, clock>>

CallErase(position, observed) ==
  \E r \in {erase(Now, position)} :
    /\ Commit(r.tree)
    /\ ref' = ref \ {value(heap, position.node, position.position)}
    /\ Observe(observed,
               [name |-> "erase",
                key |-> key(heap, position.node, position.position)],
               [iter |-> Returned(r.tree, r.iter)])
    /\ UNCHANGED <<kNodeValues, kValueSize, is_key_compare_to, other, clock>>

CallInsertMulti(k, observed) ==
  /\ clock < MaxInserts
  /\ \E r \in {insert_multi(Now, <<k, clock + 1>>)} :
       /\ Commit(r.tree)
       /\ ref' = ref \cup {<<k, clock + 1>>}
       /\ clock' = clock + 1
       /\ Observe(observed, [name |-> "insert_multi", key |-> k],
                  [iter |-> Returned(r.tree, r.iter)])
       /\ UNCHANGED <<kNodeValues, kValueSize, is_key_compare_to, other>>

CallInsertMultiHint(position, k, observed) ==
  /\ clock < MaxInserts
  /\ \E r \in {insert_multi_hint(Now, position, <<k, clock + 1>>)} :
       /\ Commit(r.tree)
       /\ ref' = ref \cup {<<k, clock + 1>>}
       /\ clock' = clock + 1
       /\ Observe(observed, [name |-> "insert_multi_hint", key |-> k],
                  [iter |-> Returned(r.tree, r.iter)])
       /\ UNCHANGED <<kNodeValues, kValueSize, is_key_compare_to, other>>

\* insert_multi(b, e) over a two-element range: insert_multi(end(), *b) for
\* each element in turn.
CallInsertMultiRange(k1, k2, observed) ==
  /\ clock + 1 < MaxInserts
  /\ \E r1 \in {insert_multi_hint(Now, end(Now), <<k1, clock + 1>>)} :
       \E r2 \in {insert_multi_hint(r1.tree, end(r1.tree),
                                    <<k2, clock + 2>>)} :
         /\ Commit(r2.tree)
         /\ ref' = ref \cup {<<k1, clock + 1>>, <<k2, clock + 2>>}
         /\ clock' = clock + 2
         /\ Observe(observed, [name |-> "insert_multi_range", key |-> k1,
                               key2 |-> k2], NoRet)
         /\ UNCHANGED <<kNodeValues, kValueSize, is_key_compare_to, other>>

\* find_unique(key): the tree is left alone, the caller gets the iterator.
FindUnique(k) ==
  /\ op' = [name |-> "find_unique", key |-> k]
  /\ ret' = [iter |-> internal_end(
                        Now, internal_find_unique(heap, k, Iter(root, 0)))]
  /\ UNCHANGED <<kNodeValues, kValueSize, is_key_compare_to, root, heap,
               misuse, other, ref, clock>>

\* count_multi(key): distance(lower_bound(key), upper_bound(key)).
CountMulti(k) ==
  /\ op' = [name |-> "count_multi", key |-> k]
  /\ ret' = [count |->
               distance(Now,
                        internal_end(Now, internal_lower_bound(
                                            heap, k, Iter(root, 0))),
                        internal_end(Now, internal_upper_bound(
                                            heap, k, Iter(root, 0))))]
  /\ UNCHANGED <<kNodeValues, kValueSize, is_key_compare_to, root, heap,
               misuse, other, ref, clock>>

EraseMulti(k) ==
  \E r \in {erase_multi(Now, k)} :
    /\ Commit(r.tree)
    /\ ref' = {v \in ref : KeyOf(v) # k}
    /\ op' = [name |-> "erase_multi", key |-> k]
    /\ ret' = [count |-> r.count]
    /\ UNCHANGED <<kNodeValues, kValueSize, is_key_compare_to, other, clock>>

\* erase(b, e) for iterators b <= e; the caller knows them as the i-th and
\* the j-th position from begin().
EraseRange(b, e) ==
  /\ distance(Now, begin(Now), b) <= distance(Now, begin(Now), e)
  /\ \E r \in {erase_range(Now, b, e)} :
       /\ Commit(r.tree)
       /\ ref' = ref \ {Iteration(Now)[x] :
                          x \in (distance(Now, begin(Now), b) + 1)
                                ..distance(Now, begin(Now), e)}
       /\ op' = [name |-> "erase_range",
                 from |-> distance(Now, begin(Now), b),
                 to |-> distance(Now, begin(Now), e)]
       /\ ret' = [count |-> r.count]
       /\ UNCHANGED <<kNodeValues, kValueSize, is_key_compare_to, other, clock>>

FindMulti(k) ==
  /\ op' = [name |-> "find_multi", key |-> k]
  /\ ret' = [iter |-> internal_end(
                        Now, internal_find_multi(heap, k, Iter(root, 0)))]
  /\ UNCHANGED <<kNodeValues, kValueSize, is_key_compare_to, root, heap,
               misuse, other, ref, clock>>

CountUnique(k) ==
  /\ op' = [name |-> "count_unique", key |-> k]
  /\ ret' = [count |->
               IF internal_find_unique(heap, k, Iter(root, 0)).node = NULL
               THEN 0 ELSE 1]
  /\ UNCHANGED <<kNodeValues, kValueSize, is_key_compare_to, root, heap,
               misuse, other, ref, clock>>

\* equal_range(key): make_pair(lower_bound(key), upper_bound(key)).
EqualRange(k) ==
  /\ op' = [name |-> "equal_range", key |-> k]
  /\ ret' = [first |-> internal_end(Now, internal_lower_bound(
                                           heap, k, Iter(root, 0))),
             second |-> internal_end(Now, internal_upper_bound(
                                            heap, k, Iter(root, 0)))]
  /\ UNCHANGED <<kNodeValues, kValueSize, is_key_compare_to, root, heap,
               misuse, other, ref, clock>>

\* t2 = t1, with the tree as t1 and other as t2; onto is t2.size() before.
Assign ==
  \E r \in {Relocate(operator_assign(other, Now, FALSE))} :
    /\ other' = r
    /\ op' = [name |-> "assign", onto |-> size(other)]
    /\ ret' = [equal |-> equal(r, Now)]
    /\ UNCHANGED <<kNodeValues, kValueSize, is_key_compare_to, root, heap,
               misuse, ref, clock>>

\* btree t2(t1): root_ starts as NULL, then assign(x).
CopyConstruct ==
  \E r \in {Relocate(assign(Tree(NULL, [n \in {} |-> NULL]), Now))} :
    /\ other' = r
    /\ op' = [name |-> "copy"]
    /\ ret' = [equal |-> equal(r, Now)]
    /\ UNCHANGED <<kNodeValues, kValueSize, is_key_compare_to, root, heap,
               misuse, ref, clock>>

\* t1 = t1.
SelfAssign ==
  /\ Commit(operator_assign(Now, Now, TRUE))
  /\ op' = [name |-> "assign_self"]
  /\ ret' = NoRet
  /\ UNCHANGED <<kNodeValues, kValueSize, is_key_compare_to, other, ref, clock>>

InsertUnique(k) == CallInsertUnique(k, FALSE)
InsertUniqueHint(position, k) == CallInsertUniqueHint(position, k, FALSE)
EraseUnique(k) == CallEraseUnique(k, FALSE)
Erase(position) == CallErase(position, FALSE)
InsertMulti(k) == CallInsertMulti(k, FALSE)

\* clear(); nodes is the number of nodes the tree holds when it is called.
Clear ==
  /\ Commit(clear(Now))
  /\ ref' = {}
  /\ op' = [name |-> "clear", nodes |-> Cardinality(DOMAIN heap)]
  /\ ret' = NoRet
  /\ UNCHANGED <<kNodeValues, kValueSize, is_key_compare_to, other, clock>>

(***************************************************************************)
(* Spec: a unique tree under an arbitrary client.                          *)
(***************************************************************************)
Next ==
  \/ \E k \in 1..MaxKey : InsertUnique(k)
  \/ \E k \in 1..MaxKey : \E position \in Hints(Now) :
       InsertUniqueHint(position, k)
  \/ \E k \in 1..MaxKey : EraseUnique(k)
  \/ \E position \in Positions(Now) : Erase(position)
  \/ Clear

Spec == Init /\ [][Next]_vars

(***************************************************************************)
(* SpecDeep: a unique tree under a client whose keys form one contiguous   *)
(* run.  It grows the run at either end and erases anywhere; once it has   *)
(* erased inside the run it only clears.  The run is long enough for the   *)
(* tree to reach three levels.                                             *)
(***************************************************************************)
RefKeys == {KeyOf(v) : v \in ref}

Contiguous ==
  {k \in 1..MaxDeepKey :
     k \notin RefKeys /\ \E a, b \in RefKeys : a < k /\ k < b} = {}

FrontierKeys ==
  {k \in 1..MaxDeepKey :
     ref = {} \/ k \in RefKeys \/ k + 1 \in RefKeys \/ k - 1 \in RefKeys}

NextDeep ==
  \/ Contiguous /\ \E k \in FrontierKeys : InsertUnique(k)
  \/ Contiguous /\ \E k \in FrontierKeys :
       \E position \in {begin(Now), end(Now)} : InsertUniqueHint(position, k)
  \/ Contiguous /\ \E k \in RefKeys : EraseUnique(k)
  \/ Contiguous /\ \E position \in Positions(Now) : Erase(position)
  \/ Clear

\* The run is explored for the plain-compare instantiation.
InitDeep == Init /\ ~is_key_compare_to

SpecDeep == InitDeep /\ [][NextDeep]_vars

\* The same client on instantiations whose value type is smaller than a
\* pointer.
InitAlloc ==
  /\ kNodeValues \in NodeValuesChoices
  /\ kValueSize \in SmallValueSizes
  /\ is_key_compare_to = FALSE
  /\ root = NULL
  /\ heap = [n \in {} |-> NULL]
  /\ misuse = {}
  /\ other = Tree(NULL, [n \in {} |-> NULL])
  /\ ref = {}
  /\ clock = 0
  /\ op = NoOp
  /\ ret = NoRet

SpecAlloc == InitAlloc /\ [][NextDeep]_vars

(***************************************************************************)
(* SpecFault: the contiguous-run client of SpecDeep on a tree whose        *)
(* allocator may refuse a request and whose value type may fail to copy.   *)
(* A failed insert throws: the caller catches the exception, inspects the  *)
(* tree and clears it before it goes on.                                   *)
(***************************************************************************)
\* insert_unique(k) with an allocator that grants the first `grants`
\* requests of the call and refuses the next one.
AllocFails(k, grants) ==
  \E r \in {insert_unique([Now EXCEPT !.grants = grants], <<k, 0>>)} :
    /\ r.tree.thrown
    /\ Commit(r.tree)
    /\ op' = [name |-> "alloc_failed", key |-> k, grants |-> grants]
    /\ ret' = NoRet
    /\ UNCHANGED <<kNodeValues, kValueSize, is_key_compare_to, other, ref,
                   clock>>

\* insert_unique(k) with a value whose copy constructor throws.
CopyFails(k) ==
  \E r \in {insert_unique([Now EXCEPT !.copy_throws = TRUE], <<k, 0>>)} :
    /\ r.tree.thrown
    /\ Commit(r.tree)
    /\ op' = [name |-> "copy_failed", key |-> k]
    /\ ret' = NoRet
    /\ UNCHANGED <<kNodeValues, kValueSize, is_key_compare_to, other, ref,
                   clock>>

\* The last call threw.
Failed == op.name \in {"alloc_failed", "copy_failed"}

NextFault ==
  \/ ~Failed /\ Contiguous /\ \E k \in FrontierKeys : InsertUnique(k)
  \/ ~Failed /\ Contiguous /\ \E k \in RefKeys : EraseUnique(k)
  \/ Clear
  \/ ~Failed /\ Contiguous /\ \E k \in FrontierKeys :
       \E grants \in 0..MaxGrants : AllocFails(k, grants)
  \/ ~Failed /\ Contiguous /\ \E k \in FrontierKeys : CopyFails(k)

SpecFault == InitDeep /\ [][NextFault]_vars

(***************************************************************************)
(* SpecSearch: the per-node search routines on one node whose keys are     *)
(* sorted, equal keys allowed, under each of the search_type dispatch      *)
(* helpers.                                                                *)
(***************************************************************************)
\* A leaf at address 1 holding the values <<keys[i], i>>.
NodeOf(keys) ==
  [init_leaf(1, kNodeValues) EXCEPT
     !.count = Len(keys),
     !.values = [i \in 1..kNodeValues |->
                   IF i <= Len(keys) THEN <<keys[i], i>> ELSE NoValue]]

InitSearch ==
  /\ kNodeValues \in NodeValuesChoices
  /\ kValueSize = kPointerSize
  /\ is_key_compare_to = FALSE
  /\ root = 1
  /\ \E c \in 0..kNodeValues : \E keys \in [1..c -> 1..MaxSearchKey] :
       /\ \A i \in 1..(c - 1) : keys[i] <= keys[i + 1]
       /\ heap = (1 :> NodeOf(keys))
  /\ misuse = {}
  /\ other = Tree(NULL, [n \in {} |-> NULL])
  /\ ref = {}
  /\ clock = 0
  /\ op = NoOp
  /\ ret = NoRet

\* search_type::lower_bound(k, node, comp) of the four dispatch helpers.
SearchLower(k) ==
  /\ op' = [name |-> "lower_bound", key |-> k]
  /\ ret' = [linear_plain |->
               linear_search_plain_compare(heap, root, k, 0, heap[root].count),
             linear_compare_to |->
               linear_search_compare_to(heap, root, k, 0, heap[root].count),
             binary_plain |->
               binary_search_plain_compare(heap, root, k, 0, heap[root].count),
             binary_compare_to |->
               binary_search_compare_to(heap, root, k, 0, heap[root].count)]
  /\ UNCHANGED <<kNodeValues, kValueSize, is_key_compare_to, root, heap,
                 misuse, other, ref, clock>>

\* search_type::upper_bound(k, node, comp): the binary plain-compare helper
\* searches by halving, the other three scan.
SearchUpper(k) ==
  /\ op' = [name |-> "upper_bound", key |-> k]
  /\ ret' = [linear_plain |-> linear_search_upper(heap, root, k, 0, heap[root].count),
             linear_compare_to |->
               linear_search_upper(heap, root, k, 0, heap[root].count),
             binary_plain |->
               binary_search_upper(heap, root, k, 0, heap[root].count),
             binary_compare_to |->
               linear_search_upper(heap, root, k, 0, heap[root].count)]
  /\ UNCHANGED <<kNodeValues, kValueSize, is_key_compare_to, root, heap,
                 misuse, other, ref, clock>>

NextSearch ==
  \/ \E k \in 1..MaxSearchKey : SearchLower(k)
  \/ \E k \in 1..MaxSearchKey : SearchUpper(k)

SpecSearch == InitSearch /\ [][NextSearch]_vars

(***************************************************************************)
(* SpecSplit: the contiguous-run client of SpecDeep, observed inside an    *)
(* insert: the tree is shown as "Split the node" of rebalance_or_split     *)
(* finds and leaves it, the value not yet inserted.  The client erases     *)
(* only while the tree is small, and clears the tree after it has been     *)
(* shown inside a call.                                                    *)
(***************************************************************************)
\* rebalance_or_split down to "Split the node" when it is called for the
\* root: [tree, node, parent].
split_entry(t, node) ==
  IF node # t.root
  THEN [tree |-> t, node |-> node, parent |-> t.heap[node].parent]
  ELSE IF t.heap[t.root].leaf
  THEN root_above(new_internal_root_node(t), t.root)
  ELSE root_below(new_internal_node(t, t.heap[node].parent), t.root)

\* rebalance_or_split(&iter) on the full node `node` where it neither
\* rebalances nor recurses: node->split(split_node, insert_position).
Split(node, insert_position) ==
  /\ heap[node].count = kNodeValues
  /\ insert_position \in 0..heap[node].count
  /\ node = root \/ heap[heap[node].parent].count < kNodeValues
  /\ \E s \in {split_entry(Now, node)} :
       \E r \in {split_step(s, insert_position)} :
         /\ r = rebalance_or_split(Now, Iter(node, insert_position))
         /\ Commit(r.tree)
         /\ op' = [name |-> "split", insert_position |-> insert_position]
         /\ ret' = [before |-> s.tree, node |-> s.node, after |-> r.tree,
                    iter |-> r.iter]
  /\ UNCHANGED <<kNodeValues, kValueSize, is_key_compare_to, other, ref,
                 clock>>

\* rebalance_or_split(&iter) as internal_insert calls it: on a full leaf.
RebalanceOrSplit(node, insert_position) ==
  /\ heap[node].leaf
  /\ heap[node].count = kNodeValues
  /\ insert_position \in 0..heap[node].count
  /\ \E r \in {rebalance_or_split(Now, Iter(node, insert_position))} :
       /\ Commit(r.tree)
       /\ op' = [name |-> "rebalance_or_split",
                 insert_position |-> insert_position]
       /\ ret' = [before |-> Now, node |-> node, after |-> r.tree,
                  iter |-> r.iter]
  /\ UNCHANGED <<kNodeValues, kValueSize, is_key_compare_to, other, ref,
                 clock>>

\* The tree is shown inside an insert or an erase.
Inside ==
  op.name \in {"split", "rebalance_or_split", "try_merge_or_rebalance"}

NextSplit ==
  \/ ~Inside /\ Contiguous /\ \E k \in FrontierKeys : InsertUnique(k)
  \/ ~Inside /\ Contiguous /\ Cardinality(ref) <= MaxSplitErase
       /\ \E k \in RefKeys : EraseUnique(k)
  \/ Clear
  \/ ~Inside /\ \E node \in DOMAIN heap :
       \E insert_position \in 0..kNodeValues : Split(node, insert_position)
  \/ ~Inside /\ \E node \in DOMAIN heap :
       \E insert_position \in 0..kNodeValues :
         RebalanceOrSplit(node, insert_position)

SpecSplit == InitDeep /\ [][NextSplit]_vars

(***************************************************************************)
(* SpecErase: a client that grows one contiguous run of keys at either     *)
(* end and then erases anywhere, leaving a few holes in the run; the tree  *)
(* is shown as the first try_merge_or_rebalance of an erase finds and      *)
(* leaves it.                                                              *)
(***************************************************************************)
Holes ==
  {k \in 1..MaxDeepKey :
     k \notin RefKeys /\ \E a, b \in RefKeys : a < k /\ k < b}

\* erase(position) down to the first turn of its loop, where the node the
\* value was removed from is not the root and is underfull.
TryMergeOrRebalance(position) ==
  /\ \E iter \in {erase_target(heap, position)} :
       \E t \in {erase_remove(Now, position)} :
         /\ iter.node # t.root
         /\ t.heap[iter.node].count < kMinNodeValues
         /\ \E r \in {try_merge_or_rebalance(t, iter)} :
              /\ Commit(r.tree)
              /\ ret' = [before |-> t, iter |-> iter, after |-> r.tree,
                         merged |-> r.merged]
  /\ op' = [name |-> "try_merge_or_rebalance"]
  /\ ref' = ref \ {value(heap, position.node, position.position)}
  /\ UNCHANGED <<kNodeValues, kValueSize, is_key_compare_to, other, clock>>

NextErase ==
  \/ ~Inside /\ Contiguous /\ Cardinality(ref) < MaxEraseRun
       /\ \E k \in FrontierKeys : InsertUnique(k)
  \/ ~Inside /\ Cardinality(Holes) < MaxHoles
       /\ \E k \in RefKeys : EraseUnique(k)
  \/ Clear
  \/ ~Inside /\ \E position \in Positions(Now) :
       TryMergeOrRebalance(position)

SpecErase == InitDeep /\ [][NextErase]_vars

(***************************************************************************)
(* SpecObs: a unique tree under a client that inspects what the calls      *)
(* return.                                                                 *)
(***************************************************************************)
ObsInsertUnique(k) == CallInsertUnique(k, TRUE)
ObsEraseUnique(k) == CallEraseUnique(k, TRUE)
ObsErase(position) == CallErase(position, TRUE)

NextObs ==
  \/ \E k \in 1..MaxObsKey : ObsInsertUnique(k)
  \/ \E k \in 1..MaxObsKey : ObsEraseUnique(k)
  \/ \E position \in Positions(Now) : ObsErase(position)
  \/ \E k \in 1..MaxObsKey : FindUnique(k)

SpecObs == Init /\ [][NextObs]_vars

(***************************************************************************)
(* SpecMulti: a multi tree under un-hinted inserts and erases.             *)
(* SpecMultiHint: a multi tree under inserts of every kind.                *)
(***************************************************************************)
NextMulti ==
  \/ \E k \in 1..MaxMultiKey : InsertMulti(k)
  \/ \E position \in Positions(Now) : Erase(position)
  \/ \E k \in 1..MaxMultiKey : EraseMulti(k)
  \/ \E k \in 1..MaxMultiKey : CountMulti(k)
  \/ \E b, e \in Hints(Now) : EraseRange(b, e)
  \/ Clear

SpecMulti == Init /\ [][NextMulti]_vars

(***************************************************************************)
(* SpecCopy: two trees of one type, a unique one while clock = 0 and a     *)
(* multi one from the first insert_multi on; the second tree gets its      *)
(* contents by assignment and copy construction.  The unique tree takes    *)
(* the keys up to MaxCopyKey in any order, and once it holds them all, the *)
(* keys above in ascending order, which brings it to three levels.         *)
(***************************************************************************)
NextCopy ==
  \/ clock = 0 /\ \E k \in 1..MaxCopyKey :
       {KeyOf(v) : v \in ref} \subseteq 1..MaxCopyKey /\ InsertUnique(k)
  \/ clock = 0 /\ \E k \in 1..MaxCopyKey :
       {KeyOf(v) : v \in ref} \subseteq 1..MaxCopyKey /\ EraseUnique(k)
  \/ clock = 0 /\ \E k \in (MaxCopyKey + 1)..MaxCopyDeepKey :
       {KeyOf(v) : v \in ref} = 1..(k - 1) /\ InsertUnique(k)
  \/ (clock > 0 \/ ref = {}) /\ clock < MaxCopyInserts
       /\ \E k \in 1..MaxMultiKey : InsertMulti(k)
  \/ clock > 0 /\ \E position \in Positions(Now) : Erase(position)
  \/ Assign
  \/ CopyConstruct
  \/ SelfAssign

SpecCopy == Init /\ [][NextCopy]_vars

ObsInsertMulti(k) == CallInsertMulti(k, TRUE)
ObsInsertMultiHint(position, k) == CallInsertMultiHint(position, k, TRUE)
ObsInsertMultiRange(k1, k2) == CallInsertMultiRange(k1, k2, TRUE)

NextMultiHint ==
  \/ \E k \in 1..MaxMultiKey : ObsInsertMulti(k)
  \/ \E k \in 1..MaxMultiKey : \E position \in Hints(Now) :
       ObsInsertMultiHint(position, k)
  \/ \E k1, k2 \in 1..MaxMultiKey : ObsInsertMultiRange(k1, k2)

SpecMultiHint == Init /\ [][NextMultiHint]_vars

(***************************************************************************)
(* SpecHint: a unique tree under a client that inserts with hints and      *)
(* inspects what the insertion returns.                                    *)
(***************************************************************************)
ObsInsertUniqueHint(position, k) == CallInsertUniqueHint(position, k, TRUE)

NextHint ==
  \/ \E k \in 1..MaxHintKey : \E position \in Hints(Now) :
       ObsInsertUniqueHint(position, k)
  \/ \E k \in 1..MaxHintKey : EraseUnique(k)

SpecHint == Init /\ [][NextHint]_vars

(***************************************************************************)
(* SpecLookup: a container, unique or multi, under a client that looks     *)
(* keys up.  The container is a unique one while no value has been handed  *)
(* to insert_multi (clock = 0), a multi one from then on.                  *)
(***************************************************************************)
NextLookup ==
  \/ clock = 0 /\ \E k \in 1..MaxLookupKey : InsertUnique(k)
  \/ clock = 0 /\ \E k \in 1..MaxLookupKey : EraseUnique(k)
  \/ clock = 0 /\ \E k \in 1..MaxLookupKey : FindUnique(k)
  \/ clock = 0 /\ \E k \in 1..MaxLookupKey : CountUnique(k)
  \/ (clock > 0 \/ ref = {}) /\ \E k \in 1..MaxMultiKey : InsertMulti(k)
  \/ clock > 0 /\ \E position \in Positions(Now) : Erase(position)
  \/ (clock > 0 \/ ref = {}) /\ \E k \in 1..MaxLookupKey : FindMulti(k)
  \/ \E k \in 1..MaxLookupKey : EqualRange(k)

SpecLookup == Init /\ [][NextLookup]_vars

(***************************************************************************)
(* Vocabulary of the properties                                            *)
(***************************************************************************)
Nodes == {Reachable(Now)[i] : i \in DOMAIN Reachable(Now)}

\* v comes before w in the reference order: by key, then by arrival.
Before(v, w) == v[1] < w[1] \/ (v[1] = w[1] /\ v[2] < w[2])

RECURSIVE InReferenceOrder(_)
InReferenceOrder(S) ==
  IF S = {} THEN <<>>
  ELSE LET m == CHOOSE v \in S : \A w \in S \ {v} : Before(v, w)
       IN <<m>> \o InReferenceOrder(S \ {m})

RECURSIVE SubtreeKeys(_, _)
SubtreeKeys(h, n) ==
  IF n \notin DOMAIN h THEN {}
  ELSE {key(h, n, i) : i \in 0..(h[n].count - 1)}
       \cup (IF h[n].leaf THEN {}
             ELSE UNION {SubtreeKeys(h, child(h, n, i)) :
                           i \in 0..h[n].count})

\* Depths at which the leaves under n lie; -1 stands for a missing child.
RECURSIVE LeafDepths(_, _, _)
LeafDepths(h, n, d) ==
  IF n \notin DOMAIN h THEN {-1}
  ELSE IF h[n].leaf THEN {d}
  ELSE UNION {LeafDepths(h, child(h, n, i), d + 1) : i \in 0..h[n].count}

RECURSIVE SumCounts(_, _)
SumCounts(h, S) ==
  IF S = {} THEN 0
  ELSE LET n == CHOOSE x \in S : TRUE
       IN h[n].count + SumCounts(h, S \ {n})

\* n, n.parent, n.parent.parent, ... : does the chain meet the root?
RECURSIVE ChainMeetsRoot(_, _, _)
ChainMeetsRoot(h, n, fuel) ==
  IF n = root THEN TRUE
  ELSE IF fuel = 0 \/ n \notin DOMAIN h THEN FALSE
  ELSE ChainMeetsRoot(h, h[n].parent, fuel - 1)

Levels == IF root = NULL THEN 0
          ELSE 1 + (CHOOSE d \in LeafDepths(heap, root, 0) : TRUE)

(***************************************************************************)
(* C1.  Unique tree against a reference set: after any sequence of         *)
(* insert_unique, hinted insert_unique, erase_unique, erase(iter) and      *)
(* clear, walking begin()..end() yields exactly the keys inserted and not  *)
(* since erased, each once, in strictly increasing order.                  *)
(***************************************************************************)
C1_IterationIsReferenceSet ==
  /\ Iteration(Now) = InReferenceOrder(ref)
  /\ \A i \in 1..(Len(Iteration(Now)) - 1) :
       KeyOf(Iteration(Now)[i]) < KeyOf(Iteration(Now)[i + 1])

\* A two-level tree that holds some keys and lacks a key between them.
C1_Witness ==
  /\ root # NULL /\ ~heap[root].leaf
  /\ Iteration(Now) = InReferenceOrder(ref)
  /\ \E k \in 1..MaxKey :
       /\ <<k, 0>> \notin ref
       /\ \E a, b \in ref : a[1] < k /\ k < b[1]

C3_OccupancyAsClaimed ==
  \A n \in Nodes \ {root} :
    kNodeValues \div 2 <= heap[n].count /\ heap[n].count <= heap[n].max_count

(***************************************************************************)
(* C3, amended.  Every node other than the root holds at least one and at  *)
(* most max_count values; it holds at least kMinNodeValues when            *)
(* kNodeValues = 3.                                                        *)
(***************************************************************************)
C3_Occupancy ==
  \A n \in Nodes \ {root} :
    /\ 1 <= heap[n].count
    /\ heap[n].count <= heap[n].max_count
    /\ kNodeValues = 3 => kNodeValues \div 2 <= heap[n].count

\* kNodeValues = 4 and a leaf below the root with a single value.
C3_Witness ==
  /\ kNodeValues = 4
  /\ \E n \in Nodes \ {root} : heap[n].leaf /\ heap[n].count = 1

(***************************************************************************)
(* C4.  Balance: all leaves lie at the same depth below the root.          *)
(***************************************************************************)
C4_Balance ==
  root # NULL => Cardinality(LeafDepths(heap, root, 0)) = 1
                 /\ -1 \notin LeafDepths(heap, root, 0)

\* The root has been split while internal: the tree has three levels.
C4_Witness == root # NULL /\ LeafDepths(heap, root, 0) = {2}

(***************************************************************************)
(* C5.  Back-pointers: for every internal node N and every i in            *)
(* 0..N.count, children[i] is a node whose parent is N and whose position  *)
(* is i.                                                                   *)
(***************************************************************************)
C5_BackPointers ==
  \A n \in Nodes :
    ~heap[n].leaf =>
      \A i \in 0..heap[n].count :
        /\ child(heap, n, i) # NULL
        /\ child(heap, n, i) \in DOMAIN heap
        /\ heap[child(heap, n, i)].parent = n
        /\ heap[child(heap, n, i)].position = i

\* A three-level tree with an internal node that has three children.
C5_Witness ==
  /\ Levels = 3
  /\ \E n \in Nodes \ {root} : ~heap[n].leaf /\ heap[n].count = 2

(***************************************************************************)
(* C6.  Size: size() is the sum of count over the nodes reachable from the *)
(* root, 0 for the empty tree; for an internal root that is the stored     *)
(* root.size.                                                              *)
(***************************************************************************)
C6_Size ==
  /\ size(Now) = SumCounts(heap, Nodes)
  /\ root # NULL /\ ~heap[root].leaf => heap[root].size = SumCounts(heap, Nodes)

\* An internal root over leaves, holding more values than one node can.
C6_Witness ==
  /\ root # NULL /\ ~heap[root].leaf
  /\ heap[root].size > kNodeValues
  /\ heap[root].size = Cardinality(ref)

(***************************************************************************)
(* C7.  Extremes: in a non-empty tree rightmost() is the leaf reached by   *)
(* following the last child from the root, root.parent the leaf reached by *)
(* following child 0; the parent chain of that leaf leads to the root, and *)
(* is_root() holds of the root only.                                       *)
(***************************************************************************)
C7_Extremes ==
  root # NULL =>
    /\ rightmost(Now) = DescendLast(heap, root)
    /\ leftmost(Now) = DescendFirst(heap, root)
    /\ heap[rightmost(Now)].leaf /\ heap[leftmost(Now)].leaf
    /\ ChainMeetsRoot(heap, leftmost(Now), Cardinality(Nodes))
    /\ \A n \in Nodes : is_root(heap, n) <=> n = root

\* A three-level tree: the two extremes are distinct leaves two levels down.
C7_Witness ==
  /\ Levels = 3
  /\ rightmost(Now) # leftmost(Now)
  /\ heap[heap[rightmost(Now)].parent].parent = root

(***************************************************************************)
(* C8.  Multi tree, un-hinted inserts and erases: walking begin()..end()   *)
(* yields the reference multiset by non-decreasing key, and among equal    *)
(* keys the value inserted earlier comes earlier.                          *)
(***************************************************************************)
C8_Fifo == Iteration(Now) = InReferenceOrder(ref)

\* Equal keys on both sides of an internal key.
C8_Witness ==
  /\ root # NULL /\ ~heap[root].leaf
  /\ \E i \in 0..(heap[root].count - 1) :
       /\ key(heap, root, i) \in SubtreeKeys(heap, child(heap, root, i))
       /\ key(heap, root, i) \in SubtreeKeys(heap, child(heap, root, i + 1))

(***************************************************************************)
(* C9, as claimed.  Multi tree, inserts of every kind (un-hinted, hinted   *)
(* with any valid hint, range): keys iterate in sorted order and equal     *)
(* keys keep their insertion order.                                        *)
(***************************************************************************)
C9_FifoAsClaimed ==
  \A i \in 1..(Len(Iteration(Now)) - 1) :
    Before(Iteration(Now)[i], Iteration(Now)[i + 1])

\* Where the value v belongs in the sequence s: after every value whose key
\* is not greater.
FifoInsert(s, v) ==
  LET n == Cardinality({i \in DOMAIN s : KeyOf(s[i]) <= KeyOf(v)})
  IN SubSeq(s, 1, n) \o <<v>> \o SubSeq(s, n + 1, Len(s))

C9_SortedAndComplete ==
  /\ \A i \in 1..(Len(Iteration(Now)) - 1) :
       KeyOf(Iteration(Now)[i]) <= KeyOf(Iteration(Now)[i + 1])
  /\ {Iteration(Now)[i] : i \in DOMAIN Iteration(Now)} = ref
  /\ Len(Iteration(Now)) = Cardinality(ref)

C9_UnhintedStep ==
  LET before == Iteration(Now)
      after == Iteration(Tree(root', heap'))
  IN /\ op'.name = "insert_multi" /\ clock' = clock + 1
          => after = FifoInsert(before, <<op'.key, clock'>>)
     /\ op'.name = "insert_multi_range" /\ clock' = clock + 2
          => after = FifoInsert(FifoInsert(before, <<op'.key, clock + 1>>),
                                <<op'.key2, clock'>>)

(***************************************************************************)
(* C9, amended.  Under inserts of every kind the keys iterate in sorted    *)
(* order and the values are exactly those inserted; an un-hinted insert    *)
(* and a range insert place the value after every value of the same key,   *)
(* a hinted insert need not.                                               *)
(***************************************************************************)
C9_SortedAndUnhintedFifo ==
  [](C9_SortedAndComplete) /\ [][C9_UnhintedStep]_vars

\* A hinted insert has put a value in front of an older one of its key.
C9_Witness ==
  /\ C9_SortedAndComplete
  /\ \E i \in 1..(Len(Iteration(Now)) - 1) :
       /\ KeyOf(Iteration(Now)[i]) = KeyOf(Iteration(Now)[i + 1])
       /\ Iteration(Now)[i][2] > Iteration(Now)[i + 1][2]

(***************************************************************************)
(* C10.  Idempotent unique insert: insert_unique of an absent key returns  *)
(* (it, true); insert_unique of a present key leaves the tree unchanged    *)
(* and returns (it2, false) with it2 at the existing element; right after  *)
(* the inserting call, it2 = it.                                           *)
(***************************************************************************)
C10_Step ==
  op'.name = "insert_unique" =>
    LET k == op'.key
    IN /\ <<k, 0>> \notin ref => ret'.inserted
       /\ <<k, 0>> \in ref =>
            /\ ~ret'.inserted
            /\ root' = root /\ heap' = heap
            /\ ret'.iter.node \in DOMAIN heap
            /\ ret'.iter.position < heap[ret'.iter.node].count
            /\ key(heap, ret'.iter.node, ret'.iter.position) = k
       /\ op = op' /\ ret.inserted => ret'.iter = ret.iter /\ ~ret'.inserted

C10_IdempotentInsert == [][C10_Step]_vars

\* The second of two equal calls has answered (it, false) for a key that
\* lives in an internal node.
C10_Witness ==
  /\ op.name = "insert_unique"
  /\ ~ret.inserted
  /\ ~heap[ret.iter.node].leaf
  /\ key(heap, ret.iter.node, ret.iter.position) = op.key

(***************************************************************************)
(* C11.  Insert-then-find: insert_unique of a key that is not present      *)
(* returns an iterator at the element with that key, and find_unique of    *)
(* the key right afterwards returns the same iterator (same node, same     *)
(* position), whatever the insertion did to the tree.                      *)
(***************************************************************************)
C11_Step ==
  /\ op'.name = "insert_unique" /\ <<op'.key, 0>> \notin ref =>
       /\ ret'.iter.node \in DOMAIN heap'
       /\ ret'.iter.position < heap'[ret'.iter.node].count
       /\ key(heap', ret'.iter.node, ret'.iter.position) = op'.key
       /\ internal_find_unique(heap', op'.key, Iter(root', 0)) = ret'.iter
  /\ op.name = "insert_unique" /\ ret.inserted
       /\ op'.name = "find_unique" /\ op'.key = op.key =>
         ret'.iter = ret.iter

C11_InsertThenFind == [][C11_Step]_vars

\* find_unique has answered with an element of a leaf below the root, in a
\* tree whose root leaf the last insertion has split.
C11_Witness ==
  /\ op.name = "find_unique"
  /\ root # NULL /\ ~heap[root].leaf
  /\ Cardinality(ref) = kNodeValues + 1
  /\ ret.iter.node # root
  /\ ret.iter.position < heap[ret.iter.node].count
  /\ key(heap, ret.iter.node, ret.iter.position) = op.key
(***************************************************************************)
(* C12.  erase(iter) removes exactly the element it is given and returns   *)
(* an iterator at the in-order successor of that element in the tree as    *)
(* it is after the call: walking from the returned iterator yields the     *)
(* elements that followed the erased one, none when it was the last (the   *)
(* iterator is then end()).                                                *)
(***************************************************************************)
C12_Step ==
  op'.name = "erase" =>
    LET s == Iteration(Now)
        i == CHOOSE j \in DOMAIN s : KeyOf(s[j]) = op'.key
    IN /\ Iteration(Tree(root', heap')) =
            SubSeq(s, 1, i - 1) \o SubSeq(s, i + 1, Len(s))
       /\ Walk(Tree(root', heap'), ret'.iter, Len(s)) =
            SubSeq(s, i + 1, Len(s))
       /\ i = Len(s) => ret'.iter = end(Tree(root', heap'))

C12_EraseReturnsSuccessor == [][C12_Step]_vars

\* erase has answered an iterator at a value of an internal node: the
\* successor of the erased element.
C12_Witness ==
  /\ op.name = "erase"
  /\ root # NULL
  /\ ret.iter.node = root /\ ~heap[root].leaf
  /\ ret.iter.position < heap[root].count
  /\ key(heap, root, ret.iter.position) > op.key
(***************************************************************************)
(* C13.  erase_unique(k): on a present key it returns 1, removes exactly   *)
(* the element with key k and reduces size() by 1; on an absent key, the   *)
(* empty tree included, it returns 0 and leaves the tree as it was.        *)
(***************************************************************************)
C13_Step ==
  op'.name = "erase_unique" =>
    LET s == Iteration(Now)
        k == op'.key
    IN /\ <<k, 0>> \in ref =>
            /\ ret'.count = 1
            /\ Iteration(Tree(root', heap')) =
                 SelectSeq(s, LAMBDA v : KeyOf(v) # k)
            /\ Len(Iteration(Tree(root', heap'))) = Len(s) - 1
            /\ size(Tree(root', heap')) = size(Now) - 1
       /\ <<k, 0>> \notin ref =>
            /\ ret'.count = 0
            /\ root' = root /\ heap' = heap

C13_EraseUnique == [][C13_Step]_vars

\* erase_unique has answered 1 and left a tree with an internal root.
C13_Witness ==
  /\ op.name = "erase_unique"
  /\ ret.count = 1
  /\ root # NULL /\ ~heap[root].leaf
  /\ <<op.key, 0>> \notin ref
(***************************************************************************)
(* C14.  Multi tree, count and erase by key: count_multi(k) is the number  *)
(* of stored elements whose key is k; erase_multi(k) removes those         *)
(* elements and no other, returns their number, reduces size() by it and   *)
(* leaves the other elements in their order.                               *)
(***************************************************************************)
C14_Count ==
  op.name = "count_multi" =>
    ret.count = Cardinality({v \in ref : KeyOf(v) = op.key})

C14_Step ==
  op'.name = "erase_multi" =>
    LET s == Iteration(Now)
        k == op'.key
    IN /\ Iteration(Tree(root', heap')) =
            SelectSeq(s, LAMBDA v : KeyOf(v) # k)
       /\ ret'.count = Cardinality({v \in ref : KeyOf(v) = k})
       /\ size(Tree(root', heap')) = size(Now) - ret'.count

C14_CountAndEraseMulti == [](C14_Count) /\ [][C14_Step]_vars

\* erase_multi has removed several elements of one key and left others.
C14_Witness ==
  /\ op.name = "erase_multi"
  /\ ret.count >= 3
  /\ root # NULL
  /\ Iteration(Now) = InReferenceOrder(ref)
(***************************************************************************)
(* C15.  Range erase: for iterators begin <= end of the tree,              *)
(* erase(begin, end) removes the elements of [begin, end) and no other,    *)
(* returns their number, and leaves the elements before and after the      *)
(* range in their order.                                                   *)
(***************************************************************************)
C15_Step ==
  op'.name = "erase_range" =>
    LET s == Iteration(Now)
    IN /\ Iteration(Tree(root', heap')) =
            SubSeq(s, 1, op'.from) \o SubSeq(s, op'.to + 1, Len(s))
       /\ ret'.count = op'.to - op'.from
       /\ size(Tree(root', heap')) = size(Now) - ret'.count

C15_RangeErase == [][C15_Step]_vars

\* A range of several elements from the inside of the sequence has been
\* erased: elements remain on both sides.
C15_Witness ==
  /\ op.name = "erase_range"
  /\ ret.count >= 2
  /\ op.from >= 1
  /\ Len(Iteration(Now)) > op.from
  /\ Iteration(Now) = InReferenceOrder(ref)
(***************************************************************************)
(* C16.  lower_bound(k) is at the first element, in iteration order, whose *)
(* key is not less than k, upper_bound(k) at the first whose key is        *)
(* greater than k; each is end() when there is no such element; and        *)
(* equal_range(k) is the pair of the two.  In unique and in multi trees.   *)
(***************************************************************************)
C16_Bounds ==
  op.name = "equal_range" =>
    LET s == Iteration(Now)
        lo == Cardinality({i \in DOMAIN s : KeyOf(s[i]) < op.key})
        hi == Cardinality({i \in DOMAIN s : KeyOf(s[i]) <= op.key})
    IN /\ \A i \in 1..(Len(s) - 1) : KeyOf(s[i]) <= KeyOf(s[i + 1])
       /\ Walk(Now, ret.first, Len(s) + 1) = SubSeq(s, lo + 1, Len(s))
       /\ Walk(Now, ret.second, Len(s) + 1) = SubSeq(s, hi + 1, Len(s))
       /\ lo = Len(s) => ret.first = end(Now)
       /\ hi = Len(s) => ret.second = end(Now)

\* A multi tree: the elements of the key start in one node and end in
\* another, and elements of a greater key follow.
C16_Witness ==
  /\ op.name = "equal_range"
  /\ clock > 0
  /\ ret.first.node # ret.second.node
  /\ ret.second # end(Now)
  /\ distance(Now, ret.first, ret.second) >= 2

(***************************************************************************)
(* C17.  find_unique(k) is at the element with key k, end() when there is  *)
(* none, and count_unique(k) is 1 or 0 accordingly; find_multi(k) is at    *)
(* the first element, in iteration order, with key k, end() when there is  *)
(* none.  The answers are those for the plain-compare and for the          *)
(* compare-to instantiation alike.                                         *)
(***************************************************************************)
C17_Find ==
  LET s == Iteration(Now)
      present == \E v \in ref : KeyOf(v) = op.key
      lo == Cardinality({i \in DOMAIN s : KeyOf(s[i]) < op.key})
  IN /\ op.name \in {"find_unique", "find_multi"} /\ present =>
          /\ ret.iter.node \in DOMAIN heap
          /\ ret.iter.position < heap[ret.iter.node].count
          /\ key(heap, ret.iter.node, ret.iter.position) = op.key
          /\ Walk(Now, ret.iter, Len(s) + 1) = SubSeq(s, lo + 1, Len(s))
     /\ op.name \in {"find_unique", "find_multi"} /\ ~present =>
          ret.iter = end(Now)
     /\ op.name = "count_unique" => ret.count = IF present THEN 1 ELSE 0

\* Under a compare-to comparator, find_multi has answered an element of an
\* internal node that is followed by another of its key.
C17_Witness ==
  /\ op.name = "find_multi"
  /\ is_key_compare_to
  /\ ret.iter # end(Now)
  /\ ~heap[ret.iter.node].leaf
  /\ Cardinality({v \in ref : KeyOf(v) = op.key}) >= 2
(***************************************************************************)
(* C18.  Hinted unique insert: for every value and every valid hint (an    *)
(* element, begin() or end()), insert_unique(position, v) leaves the tree  *)
(* with the element sequence that insert_unique(v) would leave, and        *)
(* returns an iterator at the element with the key of v.                   *)
(***************************************************************************)
C18_Step ==
  op'.name = "insert_unique_hint" =>
    /\ \E r \in {insert_unique(Now, <<op'.key, 0>>)} :
         Iteration(Tree(root', heap')) = Iteration(r.tree)
    /\ ret'.iter.node \in DOMAIN heap'
    /\ ret'.iter.position < heap'[ret'.iter.node].count
    /\ key(heap', ret'.iter.node, ret'.iter.position) = op'.key

C18_HintedInsert == [][C18_Step]_vars

\* A hinted insert has answered an element of an internal node.
C18_Witness ==
  /\ op.name = "insert_unique_hint"
  /\ ~heap[ret.iter.node].leaf
  /\ key(heap, ret.iter.node, ret.iter.position) = op.key
  /\ Cardinality(ref) > kNodeValues + 1
(***************************************************************************)
(* C19.  Lazy value: insert_unique(key, value_pointer) dereferences the    *)
(* pointer exactly when the key is absent and the value is inserted; when  *)
(* the key is present, on the plain and on the compare-to path, it returns *)
(* (iterator, false) without dereferencing it.                             *)
(***************************************************************************)
C19_Step ==
  op'.name = "insert_unique" =>
    /\ ret'.dereferenced <=> <<op'.key, 0>> \notin ref
    /\ ret'.dereferenced <=> ret'.inserted
    /\ <<op'.key, 0>> \in ref =>
         /\ ~ret'.inserted
         /\ key(heap', ret'.iter.node, ret'.iter.position) = op'.key

C19_LazyValue == [][C19_Step]_vars

\* Under a compare-to comparator, the key was found in an internal node
\* (an exact match above the leaves) and the pointer was left alone.
C19_Witness ==
  /\ op.name = "insert_unique"
  /\ is_key_compare_to
  /\ ~ret.inserted /\ ~ret.dereferenced
  /\ ~heap[ret.iter.node].leaf
  /\ key(heap, ret.iter.node, ret.iter.position) = op.key
(***************************************************************************)
(* The structural invariants, of any tree                                  *)
(***************************************************************************)
NodesOf(t) == {Reachable(t)[i] : i \in DOMAIN Reachable(t)}

RECURSIVE ChainMeets(_, _, _, _)
ChainMeets(h, n, r, fuel) ==
  IF n = r THEN TRUE
  ELSE IF fuel = 0 \/ n \notin DOMAIN h THEN FALSE
  ELSE ChainMeets(h, h[n].parent, r, fuel - 1)

\* Order, equal keys allowed.
OrderOf(t) ==
  \A n \in NodesOf(t) :
    /\ \A i \in 1..(t.heap[n].count - 1) :
         key(t.heap, n, i - 1) <= key(t.heap, n, i)
    /\ ~t.heap[n].leaf =>
         \A i \in 0..(t.heap[n].count - 1) :
           /\ \A k \in SubtreeKeys(t.heap, child(t.heap, n, i)) :
                k <= key(t.heap, n, i)
           /\ \A k \in SubtreeKeys(t.heap, child(t.heap, n, i + 1)) :
                key(t.heap, n, i) <= k

BalanceOf(t) ==
  t.root # NULL => /\ Cardinality(LeafDepths(t.heap, t.root, 0)) = 1
                   /\ -1 \notin LeafDepths(t.heap, t.root, 0)

BackPointersOf(t) ==
  \A n \in NodesOf(t) :
    ~t.heap[n].leaf =>
      \A i \in 0..t.heap[n].count :
        /\ child(t.heap, n, i) \in DOMAIN t.heap
        /\ t.heap[child(t.heap, n, i)].parent = n
        /\ t.heap[child(t.heap, n, i)].position = i

SizeOf(t) ==
  /\ size(t) = SumCounts(t.heap, NodesOf(t))
  /\ t.root # NULL /\ ~t.heap[t.root].leaf =>
       t.heap[t.root].size = SumCounts(t.heap, NodesOf(t))

ExtremesOf(t) ==
  t.root # NULL =>
    /\ rightmost(t) = DescendLast(t.heap, t.root)
    /\ leftmost(t) = DescendFirst(t.heap, t.root)
    /\ t.heap[rightmost(t)].leaf /\ t.heap[leftmost(t)].leaf
    /\ ChainMeets(t.heap, leftmost(t), t.root, Cardinality(NodesOf(t)))
    /\ \A n \in NodesOf(t) : is_root(t.heap, n) <=> n = t.root

WellFormed(t) ==
  OrderOf(t) /\ BalanceOf(t) /\ BackPointersOf(t) /\ SizeOf(t) /\ ExtremesOf(t)

LevelsOf(t) ==
  IF t.root = NULL THEN 0
  ELSE 1 + (CHOOSE d \in LeafDepths(t.heap, t.root, 0) : TRUE)

(***************************************************************************)
(* C20.  Copy and assignment: after t2 = t1, and after the construction of *)
(* t2 as a copy of t1, for a unique or a multi t1 (duplicates and the      *)
(* empty tree included) and whatever t2 held before, t2 iterates the       *)
(* values of t1 in the same order, t2 == t1, t2 satisfies the structural   *)
(* invariants (order, balance, back-pointers, size, extremes) and t1 is    *)
(* unchanged; t1 = t1 leaves t1 unchanged.                                 *)
(***************************************************************************)
C20_Step ==
  /\ op'.name \in {"assign", "copy"} =>
       /\ Iteration(other') = Iteration(Now)
       /\ ret'.equal
       /\ WellFormed(other')
       /\ root' = root /\ heap' = heap
  /\ op'.name = "assign_self" =>
       /\ root' = root /\ heap' = heap
       /\ other' = other

C20_CopyAndAssign == [][C20_Step]_vars

\* A multi tree with duplicates, of two levels, has just been assigned to a
\* tree that held more values than it.
C20_Witness ==
  /\ op.name = "assign"
  /\ clock > 0
  /\ op.onto > size(Now)
  /\ LevelsOf(Now) = 2 /\ LevelsOf(other) = 2
  /\ \E i \in 1..(Len(Iteration(other)) - 1) :
       KeyOf(Iteration(other)[i]) = KeyOf(Iteration(other)[i + 1])
(***************************************************************************)
(* C21.  clear(): from any reachable state clear() leaves the root null,   *)
(* size() = 0, empty() true and begin() = end(); every node that was       *)
(* allocated has been deallocated, once and with the size of its shape     *)
(* (leaf, internal node, root), so that no node is left and the allocator  *)
(* has seen no misuse; and the tree is the tree a constructor leaves, on   *)
(* which the inserts that follow start afresh.                             *)
(***************************************************************************)
C21_Step ==
  op'.name = "clear" =>
    /\ root' = NULL
    /\ size(Tree(root', heap')) = 0
    /\ empty(Tree(root', heap'))
    /\ begin(Tree(root', heap')) = end(Tree(root', heap'))
    /\ DOMAIN heap' = {}
    /\ misuse' = {}
    /\ [Tree(root', heap') EXCEPT !.misuse = misuse']
         = Tree(NULL, [n \in {} |-> NULL])

C21_Clear == [][C21_Step]_vars

\* A tree of three levels, with internal nodes below an internal root, has
\* been cleared.
C21_Witness ==
  /\ op.name = "clear"
  /\ op.nodes > 2 + kNodeValues
  /\ root = NULL
(***************************************************************************)
(* C22.  Bidirectional iteration: in every reachable non-empty tree, ++    *)
(* applied size() times from begin() visits every element once, in order,  *)
(* and ends exactly at end() = (rightmost leaf, its count); -- undoes ++   *)
(* on every element and on end(); and --begin() is (leftmost leaf, -1),    *)
(* from which ++ gives begin().                                            *)
(***************************************************************************)
\* it, ++it, ..., after n increments.
RECURSIVE Increments(_, _, _)
Increments(t, it, n) ==
  IF n = 0 THEN <<it>>
  ELSE <<it>> \o Increments(t, increment(t.heap, it), n - 1)

C22_Along(t, its) ==
  /\ Len(its) = size(t) + 1
  /\ its[size(t) + 1] = end(t)
  /\ end(t) = Iter(rightmost(t), t.heap[rightmost(t)].count)
  /\ {its[i] : i \in 1..size(t)} = Positions(t)
  /\ Cardinality(Positions(t)) = size(t)
  /\ [i \in 1..size(t) |-> value(t.heap, its[i].node, its[i].position)]
       = InReferenceOrder(ref)
  /\ \A i \in 1..size(t) : decrement(t.heap, its[i + 1]) = its[i]
  /\ decrement(t.heap, begin(t)) = Iter(leftmost(t), -1)
  /\ increment(t.heap, Iter(leftmost(t), -1)) = begin(t)

C22_Iteration ==
  root # NULL => C22_Along(Now, Increments(Now, begin(Now), size(Now)))

\* A tree of three levels: the walk climbs and descends two levels.
C22_Witness ==
  /\ Levels = 3
  /\ size(Now) > 4 * kNodeValues
  /\ decrement(heap, end(Now)) \in Positions(Now)
(***************************************************************************)
(* C23.  height(): in every reachable state height() is 0 for an empty     *)
(* tree and otherwise the number of levels of the tree (1 for a single     *)
(* leaf root, the common leaf depth + 1 in general), counted along the     *)
(* parent chain root -> leftmost leaf -> ... -> root.                      *)
(***************************************************************************)
\* do { ++h; n = n->parent(); } while (n != root());  fuel bounds a chain
\* that never comes back to the root.
RECURSIVE height_loop(_, _, _, _)
height_loop(t, n, h, fuel) ==
  IF fuel = 0 THEN -1
  ELSE IF t.heap[n].parent = t.root THEN h + 1
  ELSE height_loop(t, t.heap[n].parent, h + 1, fuel - 1)

\* Defect: the chain is counted from the root's parent.
height_from_parent(t) ==
  IF t.root = NULL THEN 0
  ELSE height_loop(t, t.heap[t.root].parent, 0, Cardinality(DOMAIN t.heap) + 1)

height(t) ==
  IF t.root = NULL THEN 0
  ELSE height_loop(t, t.root, 0, Cardinality(DOMAIN t.heap) + 1)

C23_Height ==
  /\ root = NULL => height(Now) = 0
  /\ root # NULL /\ heap[root].leaf => height(Now) = 1
  /\ root # NULL =>
       /\ heap[root].parent = leftmost(Now)
       /\ heap[leftmost(Now)].leaf
       /\ \A d \in LeafDepths(heap, root, 0) : height(Now) = d + 1
       /\ height(Now) = Levels

\* A tree of three levels, its leftmost leaf two levels below the root.
C23_Witness ==
  /\ height(Now) = 3
  /\ heap[heap[leftmost(Now)].parent].parent = root
(***************************************************************************)
(* C24.  Allocation failure, as claimed: when the allocator refuses a      *)
(* request made during an insert, the exception reaches the caller and     *)
(* the tree is in the state it had before the call.                        *)
(***************************************************************************)
C24_Step ==
  op'.name = "alloc_failed" =>
    /\ root' = root
    /\ heap' = heap
    /\ misuse' = misuse

C24_PreOperationState == [][C24_Step]_vars
(***************************************************************************)
(* C25.  Value-construction failure, as claimed: when the copy of the      *)
(* value fails inside an insert, the exception reaches the caller and the  *)
(* tree is consistent: the structural invariants hold, every node other    *)
(* than the root holds a value, size() is the number of values stored and  *)
(* empty() holds exactly when no value is stored.                          *)
(***************************************************************************)
C25_Consistent ==
  op.name = "copy_failed" =>
    /\ WellFormed(Now)
    /\ \A n \in NodesOf(Now) : n # root => heap[n].count >= 1
    /\ size(Now) = SumCounts(heap, NodesOf(Now))
    /\ empty(Now) <=> SumCounts(heap, NodesOf(Now)) = 0
(***************************************************************************)
(* C26.  Exact-size deallocation, as claimed: over any sequence of         *)
(* operations every node is handed back to the allocator with the byte     *)
(* size with which it was allocated, whatever its shape (small or full     *)
(* root leaf, ordinary leaf, internal node, internal root).                *)
(***************************************************************************)
C26_ExactSize == misuse = {}
(***************************************************************************)
(* C27.  Per-node search: on a node whose keys are sorted, equal keys      *)
(* allowed, the four lower-bound strategies (linear or binary, plain or    *)
(* compare-to) return the same position p in 0..count, the index of the    *)
(* first key not less than k (count if there is none); the compare-to      *)
(* strategies set the exact-match bit exactly when p < count and key(p)    *)
(* is equivalent to k; upper_bound returns the index of the first key      *)
(* greater than k for both comparator shapes.                              *)
(***************************************************************************)
FirstNotLess(k) ==
  CHOOSE p \in 0..heap[root].count :
    /\ \A i \in 0..(p - 1) : key(heap, root, i) < k
    /\ \A i \in p..(heap[root].count - 1) : key(heap, root, i) >= k

FirstGreater(k) ==
  CHOOSE p \in 0..heap[root].count :
    /\ \A i \in 0..(p - 1) : key(heap, root, i) <= k
    /\ \A i \in p..(heap[root].count - 1) : key(heap, root, i) > k

\* What a compare-to strategy returns for the position p.
Flagged(p, k) ==
  IF p < heap[root].count /\ key(heap, root, p) = k
  THEN p + kExactMatch ELSE p

C27_PerNodeSearch ==
  /\ op.name = "lower_bound" =>
       /\ ret.linear_plain = FirstNotLess(op.key)
       /\ ret.binary_plain = FirstNotLess(op.key)
       /\ ret.linear_compare_to = Flagged(FirstNotLess(op.key), op.key)
       /\ ret.binary_compare_to = Flagged(FirstNotLess(op.key), op.key)
       /\ ret.linear_plain \in 0..heap[root].count
  /\ op.name = "upper_bound" =>
       /\ ret.linear_plain = FirstGreater(op.key)
       /\ ret.linear_compare_to = FirstGreater(op.key)
       /\ ret.binary_plain = FirstGreater(op.key)
       /\ ret.binary_compare_to = FirstGreater(op.key)

\* A full node with three equal keys, the first of them not at the midpoint,
\* has been searched for that key.
C27_Witness ==
  /\ op.name = "lower_bound"
  /\ heap[root].count = 4
  /\ key(heap, root, 0) < op.key
  /\ \A i \in 1..3 : key(heap, root, i) = op.key
  /\ ret.binary_compare_to = 1 + kExactMatch
(***************************************************************************)
(* C28.  Split bias: split(dest, insert_position) on a full node of c =    *)
(* max_count values and an empty dest moves c - 1 values to dest when      *)
(* insert_position = 0, none when insert_position = max_count, and c / 2   *)
(* otherwise; it then promotes the largest value left in the node into the *)
(* parent at the node's position, with dest as the child after it, so that *)
(* the two counts add up to c - 1, an internal node hands over exactly its *)
(* dest.count + 1 last children, and the in-order sequence of the tree is  *)
(* unchanged.                                                              *)
(***************************************************************************)
\* The values under n in order; InOrderFrom starts at value i of n.
RECURSIVE InOrder(_, _)
RECURSIVE InOrderFrom(_, _, _)
InOrder(h, n) ==
  IF h[n].leaf THEN [i \in 1..h[n].count |-> h[n].values[i]]
  ELSE InOrder(h, child(h, n, 0)) \o InOrderFrom(h, n, 0)
InOrderFrom(h, n, i) ==
  IF i >= h[n].count THEN <<>>
  ELSE <<value(h, n, i)>> \o InOrder(h, child(h, n, i + 1))
         \o InOrderFrom(h, n, i + 1)

\* b, a: the heap before and after; n, d: the node and dest; ip: the insert
\* position.
C28_Of(b, a, n, d, ip) ==
  /\ b[n].count = b[n].max_count
  /\ a[d].count = (IF ip = 0 THEN b[n].count - 1
                   ELSE IF ip = b[n].max_count THEN 0
                   ELSE b[n].count \div 2)
  /\ a[n].count + a[d].count = b[n].count - 1
  /\ \A i \in 0..(a[n].count - 1) : value(a, n, i) = value(b, n, i)
  /\ \A i \in 0..(a[d].count - 1) :
       value(a, d, i) = value(b, n, a[n].count + 1 + i)
  /\ a[n].parent = b[n].parent /\ a[n].position = b[n].position
  /\ a[b[n].parent].count = b[b[n].parent].count + 1
  /\ value(a, b[n].parent, b[n].position) = value(b, n, a[n].count)
  /\ \A i \in 0..(a[n].count - 1) :
       KeyOf(value(a, n, i)) < KeyOf(value(a, b[n].parent, b[n].position))
  /\ child(a, b[n].parent, b[n].position) = n
  /\ child(a, b[n].parent, b[n].position + 1) = d
  /\ a[d].parent = b[n].parent /\ a[d].position = b[n].position + 1
  /\ a[d].leaf = b[n].leaf
  /\ ~b[n].leaf =>
       /\ \A i \in 0..a[n].count : child(a, n, i) = child(b, n, i)
       /\ \A i \in 0..a[d].count :
            /\ child(a, d, i) = child(b, n, a[n].count + 1 + i)
            /\ a[child(a, d, i)].parent = d
            /\ a[child(a, d, i)].position = i

C28_SplitBias ==
  op.name = "split" =>
    /\ Cardinality(DOMAIN ret.after.heap \ DOMAIN ret.before.heap) = 1
    /\ \A d \in DOMAIN ret.after.heap \ DOMAIN ret.before.heap :
         C28_Of(ret.before.heap, ret.after.heap, ret.node, d,
                op.insert_position)
    /\ InOrder(ret.after.heap, ret.after.root)
         = InOrder(ret.before.heap, ret.before.root)
    /\ InOrder(ret.after.heap, ret.after.root) = InReferenceOrder(ref)

\* An internal node below the root has been split.
C28_Witness ==
  /\ op.name = "split"
  /\ ~ret.before.heap[ret.node].leaf
  /\ ret.node # ret.before.root
  /\ ret.before.heap[ret.before.root].count > 0
(***************************************************************************)
(* C29.  rebalance_or_split: called on a full node with an insert position *)
(* p in 0..count it returns with the iterator on a node with room, at a    *)
(* position in 0..count of it; the in-order sequence of the tree is        *)
(* unchanged; and a value inserted at that slot takes the in-order rank    *)
(* that (node, p) denoted.  This holds when it rebalances with the left    *)
(* sibling, with the right sibling, splits the parent first, splits a leaf *)
(* root, and splits an internal root.                                      *)
(***************************************************************************)
\* The number of values in order before value q of n that lie under n.
RECURSIVE Under(_, _, _)
Under(h, n, q) ==
  IF q = 0 THEN 0
  ELSE Under(h, n, q - 1) + Len(InOrder(h, child(h, n, q - 1))) + 1

\* The number of values in order before the slot p of the leaf n.
RECURSIVE Rank(_, _, _)
Rank(t, n, p) ==
  IF n = t.root THEN p
  ELSE Rank(t, t.heap[n].parent, 0)
         + Under(t.heap, t.heap[n].parent, t.heap[n].position) + p

\* A value that no tree holds.
Marker == <<0, 1>>

C29_Of(b, node, p, a, it) ==
  /\ it.node \in DOMAIN a.heap
  /\ a.heap[it.node].leaf
  /\ a.heap[it.node].count < a.heap[it.node].max_count
  /\ 0 <= it.position /\ it.position <= a.heap[it.node].count
  /\ InOrder(a.heap, a.root) = InOrder(b.heap, b.root)
  /\ InOrder(insert_value(a.heap, it.node, it.position, Marker), a.root)
       = SubSeq(InOrder(b.heap, b.root), 1, Rank(b, node, p))
           \o <<Marker>>
           \o SubSeq(InOrder(b.heap, b.root), Rank(b, node, p) + 1,
                     Len(InOrder(b.heap, b.root)))

C29_RebalanceOrSplit ==
  op.name = "rebalance_or_split" =>
    C29_Of(ret.before, ret.node, op.insert_position, ret.after, ret.iter)

\* The leaf, its parent and the internal root above were full: three nodes
\* were allocated.
C29_Witness ==
  /\ op.name = "rebalance_or_split"
  /\ Cardinality(DOMAIN ret.after.heap)
       = Cardinality(DOMAIN ret.before.heap) + 3
(***************************************************************************)
(* C30.  Rebalance side on erase: in try_merge_or_rebalance on an          *)
(* underfull node for which neither merge fits, the right sibling is       *)
(* tried first: values are taken from it when it exists, holds more than   *)
(* kMinNodeValues values and the node is empty or the erased position is   *)
(* not the first; otherwise from the left sibling when it exists, holds    *)
(* more than kMinNodeValues values and the node is empty or the erased     *)
(* position is not past the last value; otherwise from neither.  The       *)
(* counts of the siblings are not compared.                                *)
(***************************************************************************)
\* The siblings of the node of a try_merge_or_rebalance call, in the tree
\* before it: NULL where there is none.
LeftOf(r) ==
  IF r.before.heap[r.iter.node].position > 0
  THEN child(r.before.heap, r.before.heap[r.iter.node].parent,
             r.before.heap[r.iter.node].position - 1)
  ELSE NULL
RightOf(r) ==
  IF r.before.heap[r.iter.node].position
       < r.before.heap[r.before.heap[r.iter.node].parent].count
  THEN child(r.before.heap, r.before.heap[r.iter.node].parent,
             r.before.heap[r.iter.node].position + 1)
  ELSE NULL

\* Values were taken from the sibling n.
TakenFrom(r, n) ==
  n # NULL /\ r.after.heap[n].count < r.before.heap[n].count

\* The sibling n holds more than kMinNodeValues values.
Spare(r, n) == n # NULL /\ r.before.heap[n].count > kMinNodeValues

Added == ref \subseteq ref' /\ ref' # ref

\* The root is the only node, a leaf with no room left and less than the
\* full capacity.
SmallRootFull(t) ==
  /\ t.root # NULL
  /\ t.heap[t.root].leaf
  /\ t.heap[t.root].count = t.heap[t.root].max_count
  /\ t.heap[t.root].max_count < kNodeValues

\* Iteration without the element v.
Without(s, v) == SelectSeq(s, LAMBDA x : x # v)

\* The tree g that internal_insert works on after growing the root of t.
C31_Grown(t, g) ==
  /\ g.root # t.root
  /\ DOMAIN g.heap = {g.root}
  /\ g.misuse = t.misuse
  /\ g.heap[g.root].max_count = Min2(kNodeValues, 2 * t.heap[t.root].max_count)
  /\ Iteration(g) = Iteration(t)

C31_Step ==
  /\ root = NULL /\ Added =>
       /\ DOMAIN heap' = {root'}
       /\ heap'[root'].leaf
       /\ heap'[root'].max_count = 1
       /\ heap'[root'].parent = root'
       /\ heap'[root'].count = 1
  /\ SmallRootFull(Now) /\ Added =>
       /\ DOMAIN heap' = {root'}
       /\ heap'[root'].leaf
       /\ heap'[root'].max_count
            = Min2(kNodeValues, 2 * heap[root].max_count)
       /\ heap'[root'].parent = root'
       /\ heap'[root'].bytes
            = sizeof_base_fields + heap'[root'].max_count * kValueSize
       /\ misuse' = misuse
       /\ \A v \in ref' \ ref : Without(Iteration(Now'), v) = Iteration(Now)
       /\ \A p \in 0..heap[root].count :
            C31_Grown(Now, make_room(Now, Iter(root, p)).tree)

C31_SmallRootGrowth == [][C31_Step]_vars

\* A root of capacity 2 exists only through a growth from capacity 1; it is
\* full, so that the next insert grows it again.
C31_Witness ==
  /\ root # NULL
  /\ heap[root].leaf
  /\ heap[root].max_count = 2
  /\ heap[root].count = 2

(***************************************************************************)
(* C32: on every call reachable from the public operations the             *)
(* preconditions asserted by the node operations hold:                     *)
(* rebalance_right_to_left is called with src.count >= count and           *)
(* 1 <= to_move <= src.count, rebalance_left_to_right with                 *)
(* count >= dest.count and 1 <= to_move <= count, split with an empty dest *)
(* and leaving count >= 1 before the promotion, remove_value on an         *)
(* internal node only when children[i + 1] is empty, and in erase of an    *)
(* internal position the decremented iterator is on a leaf.  No state      *)
(* holds the record of a failed assertion.                                 *)
(***************************************************************************)
C32_AssertionsHold == misuse \cap Assertions = {}

\* try_merge_or_rebalance has called rebalance_left_to_right on the left
\* sibling, with the arguments the assertions are about.
C32_Witness ==
  /\ op.name = "try_merge_or_rebalance"
  /\ ~ret.merged
  /\ TakenFrom(ret, LeftOf(ret))
  /\ rebalance_left_to_right_asserts(
       ret.before.heap, LeftOf(ret), ret.iter.node,
       ret.before.heap[LeftOf(ret)].count - ret.after.heap[LeftOf(ret)].count)

(***************************************************************************)
(* C33: after every public mutation of a non-empty tree every reachable    *)
(* node, the root included, holds at least one value.  In particular an    *)
(* erase that empties a leaf below the root goes on with a merge, or with  *)
(* a rebalance that refills the leaf, and no internal root is left with    *)
(* count 0.                                                                *)
(***************************************************************************)
\* try_merge_or_rebalance answered r for the node at iter, which erase had
\* emptied in t: the node was merged with a sibling or holds values again.
C33_Refilled(t, iter, r) ==
  /\ iter.node # t.root
  /\ r.merged \/ r.tree.heap[iter.node].count >= 1
  /\ r.merged => Cardinality(DOMAIN r.tree.heap) < Cardinality(DOMAIN t.heap)

\* The positions whose erase empties a leaf.
LastInLeaf ==
  {position \in Positions(Now) :
     heap[erase_target(heap, position).node].count = 1}

C33_NoEmptyNode ==
  root # NULL =>
    /\ \A n \in NodesOf(Now) : heap[n].count >= 1
    /\ \A position \in LastInLeaf :
         erase_target(heap, position).node # root =>
           C33_Refilled(erase_remove(Now, position),
                        erase_target(heap, position),
                        try_merge_or_rebalance(
                          erase_remove(Now, position),
                          erase_target(heap, position)))

\* Three levels, an internal node below the root with one value, and a leaf
\* with one value that an erase empties.
C33_Witness ==
  /\ Levels = 3
  /\ \E n \in Nodes \ {root} : ~heap[n].leaf /\ heap[n].count = 1
  /\ \E position \in LastInLeaf : heap[position.node].leaf

(***************************************************************************)
(* C34: a node with max_count < kNodeValues exists only as the root leaf   *)
(* of a single-node tree; every node that is not the root and every        *)
(* internal node has max_count = kNodeValues.  Hence an insert that splits *)
(* a node (it allocates a sibling) finds that node with the full capacity. *)
(***************************************************************************)
\* The full leaves, where internal_insert has to make room.
FullLeaves ==
  {n \in NodesOf(Now) : heap[n].leaf /\ heap[n].count = heap[n].max_count}

\* Making room in t at the leaf of iter gave r: when nodes were added, the
\* leaf had the full capacity and so have the nodes added.
C34_SplitAtFullCapacity(t, iter, r) ==
  Cardinality(DOMAIN r.tree.heap) > Cardinality(DOMAIN t.heap) =>
    /\ t.heap[iter.node].max_count = kNodeValues
    /\ \A n \in DOMAIN r.tree.heap : r.tree.heap[n].max_count = kNodeValues

C34_Capacity ==
  /\ \A n \in DOMAIN heap :
       /\ heap[n].max_count \in 1..kNodeValues
       /\ heap[n].max_count < kNodeValues =>
            n = root /\ heap[n].leaf /\ DOMAIN heap = {n}
       /\ n # root \/ ~heap[n].leaf => heap[n].max_count = kNodeValues
  /\ \A n \in FullLeaves : \A p \in 0..heap[n].count :
       C34_SplitAtFullCapacity(Now, Iter(n, p), make_room(Now, Iter(n, p)))

\* Leaves below the root that hold a single value and still have the full
\* capacity, in a tree of three levels.
C34_Witness ==
  /\ Levels = 3
  /\ \E n \in Nodes \ {root} :
       heap[n].leaf /\ heap[n].count = 1 /\ heap[n].max_count = kNodeValues

(***************************************************************************)
(* C35: a single insert never decreases height() and increases it by at    *)
(* most 1; a single erase never increases height() and decreases it by at  *)
(* most 1.  Hence height() does not decrease along a sequence of inserts.  *)
(***************************************************************************)
\* The step is a call of insert (plain or hinted), whether or not the key
\* was present; the step is a call of erase (by key or by position).
InsertStep == op'.name # "clear" /\ ref \subseteq ref'
EraseStep == op'.name # "clear" /\ ref' \subseteq ref

C35_Step ==
  /\ InsertStep =>
       /\ height(Now) <= height(Now')
       /\ height(Now') <= height(Now) + 1
  /\ EraseStep =>
       /\ height(Now') <= height(Now)
       /\ height(Now) - 1 <= height(Now')

C35_HeightSteps == [][C35_Step]_vars

\* The height has gone up to 3, which takes three inserts that raise it.
C35_Witness ==
  /\ height(Now) = 3
  /\ Cardinality(ref) = MaxDeepKey

(***************************************************************************)
(* C36: after every public operation the nodes allocated and not yet       *)
(* deallocated are exactly the nodes reachable from the root: none is      *)
(* leaked, no reachable node has been freed, and nothing was freed that    *)
(* was not allocated.  When every key that was inserted has been erased,   *)
(* in whatever order, the root is null and no node remains allocated.      *)
(***************************************************************************)
C36_NoLeak ==
  /\ DOMAIN heap = NodesOf(Now)
  /\ root # NULL => root \in DOMAIN heap
  /\ \A n \in NodesOf(Now) :
       ~heap[n].leaf =>
         \A i \in 0..heap[n].count : child(heap, n, i) \in DOMAIN heap
  /\ "unallocated" \notin misuse
  /\ ref = {} => root = NULL /\ DOMAIN heap = {} /\ empty(Now)

\* An erase has taken the last of the keys: nothing is allocated.
C36_Witness ==
  /\ op.name = "erase_unique"
  /\ ret.count = 1
  /\ ref = {}
  /\ DOMAIN heap = {}

(***************************************************************************)
(* C37: in every state reached through public operations that return       *)
(* normally, empty() (the root is null) holds exactly when size() = 0 and  *)
(* exactly when begin() = end(); a root that is not null holds at least    *)
(* one value.                                                              *)
(***************************************************************************)
C37_Emptiness ==
  /\ empty(Now) <=> root = NULL
  /\ empty(Now) <=> size(Now) = 0
  /\ empty(Now) <=> begin(Now) = end(Now)
  /\ size(Now) = 0 <=> begin(Now) = end(Now)
  /\ root # NULL => heap[root].count >= 1

\* erase(iterator) has taken the last value: it returned end() of a tree
\* that is empty in all three senses.
C37_Witness ==
  /\ op.name = "erase"
  /\ empty(Now)
  /\ size(Now) = 0
  /\ begin(Now) = end(Now)
  /\ ret.iter = end(Now)

====
